---- MODULE Spec2Model ----
(***************************************************************************)
(* kitchenthing: the e-Paper panel protocol (waveshare.go) and the process *)
(* life cycle that drives it (main and loop in main.go).                   *)
(*                                                                         *)
(* The panel code is straight-line Go that calls time.Sleep, writes GPIO   *)
(* pins and transmits SPI bursts.  Each function body is written here as   *)
(* the sequence of statements it executes; a goroutine executes the head   *)
(* of its pending statements one step at a time, a call being replaced by  *)
(* the callee's body when it is made.                                      *)
(***************************************************************************)
EXTENDS Integers, Sequences, FiniteSets, TLC

\* ------------------------------------------------------------------ bounds
MaxPolls == 2          \* not-ready polls of one busy-wait kept in the channel log
MaxWidthBytes == 2     \* bytes per framebuffer row in the model
MaxHeight == 2         \* framebuffer rows in the model
MaxSets == 1           \* pixels one Render writes

\* ------------------------------------------------------- program constants
PanelWidth == 800
PanelHeight == 480

width == 8 * MaxWidthBytes
height == MaxHeight

Low == "Low"
High == "High"
Level == {Low, High}

colWhite == "colWhite"
colBlack == "colBlack"
colRed == "colRed"
paperColor == {colWhite, colBlack, colRed}

Goroutines == {"main", "loop"}

VARIABLES
    reset, dc, cs,      \* output lines of the control channel
    bw, red,            \* the two planes of the framebuffer (p.bw.bits, p.red.bits)
    gpio,               \* "closed" | "open": rpio.Open / rpio.Close
    todo,               \* per goroutine: panel statements still to execute
    stack,              \* per goroutine: panel functions entered and not returned
    log,                \* what the channel has seen since the current panel operation began
    polls,              \* not-ready polls of the busy-wait in progress (saturates at MaxPolls)
    readv,              \* last value read from the busy line in the busy-wait in progress
    done,               \* the panel function that returned in the last step, with what it emitted
    opsLog,             \* panel operations and renders begun/ended since the last cycle started
    lastOp,             \* last panel operation that completed
    usePaper,           \* the -use_paper flag
    ctxDone,            \* the context has been cancelled
    wg,                 \* sync.WaitGroup counter
    mainPc, loopPc, httpPc, shutPc, sigPc,
    httpShutdown,       \* httpServer.Shutdown has been called
    crashed,            \* a goroutine panicked
    prev, data,         \* loop's prev and data
    loopErr,            \* what loop returned
    api,                \* the calls a client of the paper type makes, and their arguments
    ret,                \* what the last At or get call returned
    photo,              \* the photo stage of Render: the region, the picked file and what it decodes to
    photoPc,            \* position in the photo stage of Render and in drawPhoto
    dst,                \* drawPhoto's dst: the views wrapped around the framebuffer
    scale,              \* drawPhoto's scale, as the ratio num/den
    carriedErrors,      \* drawPhoto's carriedErrors
    col, row,           \* drawPhoto's loop variables x and y
    err,                \* what drawPhoto returned
    applog,             \* lines written with log.Printf by the photo stage
    written,            \* framebuffer pixels drawPhoto has written, in order
    pix,                \* the pixel the last step of drawPhoto's loop handled
    planes0,            \* the framebuffer as the text layout left it
    wt,                 \* the writeText call in progress and what it computed
    logBuf,             \* server.logBuf
    mu,                 \* who holds server.mu
    wr,                 \* the server.Write call in progress
    nextPhoto,          \* server.nextPhoto
    dir,                \* the photos directory
    pk,                 \* the pickPhoto call in progress
    posts,              \* the serveSetNextPhoto handlers
    picks,              \* what the pickPhoto calls so far returned
    arr                 \* the Reorderer and the Arrange call

vars == <<reset, dc, cs, bw, red, gpio, todo, stack, log, polls, readv, done,
          opsLog, lastOp, usePaper, ctxDone, wg, mainPc, loopPc, httpPc,
          shutPc, sigPc, httpShutdown, crashed, prev, data, loopErr,
          api, ret, photo, photoPc, dst, scale, carriedErrors, col, row, err,
          applog, written, pix, planes0,
          wt, logBuf, mu, wr, nextPhoto, dir, pk, posts, picks, arr>>

panelVars == <<reset, dc, cs, bw, red, gpio, todo, stack, log, polls, readv,
               done, opsLog, lastOp>>
procVars == <<usePaper, ctxDone, wg, mainPc, loopPc, httpPc, shutPc, sigPc,
              httpShutdown, crashed, prev, data, loopErr>>

apiVars == <<api, ret>>

photoVars == <<photo, photoPc, dst, scale, carriedErrors, col, row, err,
               applog, written, pix, planes0>>

svcVars == <<wt, logBuf, mu, wr, nextPhoto, dir, pk, posts, picks, arr>>

extVars == <<api, ret, photo, photoPc, dst, scale, carriedErrors, col, row, err,
             applog, written, pix, planes0,
             wt, logBuf, mu, wr, nextPhoto, dir, pk, posts, picks, arr>>

\* --------------------------------------------------------------- bitmaps
Bit(byte, j) == (byte \div j) % 2

Pow2(n) == CASE n = 0 -> 1 [] n = 1 -> 2 [] n = 2 -> 4 [] n = 3 -> 8
             [] n = 4 -> 16 [] n = 5 -> 32 [] n = 6 -> 64 [] OTHER -> 128

newBitmap == [i \in 1..((width * height) \div 8) |-> 0]

clearAll(bits) == [i \in DOMAIN bits |-> 0]

setAll(bits) == [i \in DOMAIN bits |-> 255]

clear(bits, x, y) ==
    LET off == x + y * width
        i == off \div 8
        j == Pow2(7 - (off % 8))
    IN [bits EXCEPT ![i + 1] = IF Bit(@, j) = 1 THEN @ - j ELSE @]

\* (mutant) set numbers the bits of a byte from the least significant
set_lsbFirst(bits, x, y) ==
    LET off == x + y * width
        i == off \div 8
        j == Pow2(off % 8)
    IN [bits EXCEPT ![i + 1] = IF Bit(@, j) = 1 THEN @ ELSE @ + j]

set(bits, x, y) ==
    LET off == x + y * width
        i == off \div 8
        j == Pow2(7 - (off % 8))
    IN [bits EXCEPT ![i + 1] = IF Bit(@, j) = 1 THEN @ ELSE @ + j]

\* (mutant) the row's first bytes, whatever x is
subrow_rowStart(bits, x, y, w) ==
    LET i == (y * width) \div 8
    IN SubSeq(bits, i + 1, i + (w \div 8))

\* bitmap.subrow: the w/8 bytes from the byte that holds pixel (x, y)
subrow(bits, x, y, w) ==
    LET off == x + y * width
        i == off \div 8
    IN SubSeq(bits, i + 1, i + (w \div 8))

\* ------------------------------------------------------------ statements
I(k, s, v, n, bs) == [k |-> k, s |-> s, v |-> v, n |-> n, bs |-> bs]

Call(f) == I("call", f, "", 0, <<>>)
Cmd(x, params) == I("call", "Command", "", x, params)
Dat(bs) == I("call", "Data", "", 0, bs)
DatPlane(plane) == I("callp", "Data", plane, 0, <<>>)
\* p.Data(plane.subrow(x, row, w)...)
DatRow(plane, x, y, w) == I("callr", "Data", plane, y, <<x, w>>)
Panic == I("panic", "", "", 0, <<>>)
Ret(f, n, bs) == I("ret", f, "", n, bs)
PinWrite(pin, lvl) == I("pin", pin, lvl, 0, <<>>)
SpiTransmit(bs) == I("tx", "", "", 0, bs)
TimeSleep(ms) == I("sleep", "", "", ms, <<>>)
BusyRead == I("busy", "", "", 0, <<>>)
BitmapOp(plane, op) == I("bitmap", plane, op, 0, <<>>)
SetPixel(x, y, c) == I("set", "", c, 0, <<x, y>>)
Gpio(op) == I("gpio", op, "", 0, <<>>)

\* what the channel log records
Ev(k, by, v, c, n, bs) == [k |-> k, by |-> by, v |-> v, cs |-> c, n |-> n, bs |-> bs]


\* --------------------------------------------- waveshare.go: function bodies
Reset ==
    << PinWrite("reset", High), TimeSleep(20),
       PinWrite("reset", Low), TimeSleep(2),
       PinWrite("reset", High), TimeSleep(20) >>

Clear == << BitmapOp("bw", "setAll"), BitmapOp("red", "clearAll") >>

\* (mutant) the data/command line is not driven before the command byte
Command_noDc(x, params) ==
    << PinWrite("cs", Low), SpiTransmit(<<x>>), PinWrite("cs", High) >>
    \o [i \in 1..Len(params) |-> Dat(<<params[i]>>)]

Command(x, params) ==
    << PinWrite("dc", Low), PinWrite("cs", Low), SpiTransmit(<<x>>), PinWrite("cs", High) >>
    \o [i \in 1..Len(params) |-> Dat(<<params[i]>>)]

Data(x) ==
    << PinWrite("dc", High), PinWrite("cs", Low), SpiTransmit(x), PinWrite("cs", High) >>

\* (mutant) the status command is the wrong opcode
WaitForNotBusy_wrongOpcode == << Cmd(4, <<>>), BusyRead >>

\* one pass of the for loop up to the read of the busy pin
WaitForNotBusy == << Cmd(113, <<>>), BusyRead >>

\* (mutant) the loop gives up after a not-ready poll
afterBusyRead_timeout(v) ==
    IF v = High \/ polls >= 1 THEN << TimeSleep(200) >>
                              ELSE << TimeSleep(1) >> \o WaitForNotBusy

\* the rest of the loop, given the level v that was read
afterBusyRead(v) ==
    IF v = High THEN << TimeSleep(200) >>
                ELSE << TimeSleep(1) >> \o WaitForNotBusy

\* (mutant) no busy-wait after Power-On
paperInit_noWait ==
    << Call("Reset"),
       Cmd(1, <<>>), Dat(<<7>>), Dat(<<7>>), Dat(<<63>>), Dat(<<63>>),
       Cmd(4, <<>>), TimeSleep(100),
       Cmd(0, <<>>), Dat(<<15>>),
       Cmd(97, <<>>), Dat(<<3>>), Dat(<<32>>), Dat(<<1>>), Dat(<<224>>),
       Call("Clear") >>

paperInit ==
    << Call("Reset"),
       Cmd(1, <<>>), Dat(<<7>>), Dat(<<7>>), Dat(<<63>>), Dat(<<63>>),
       Cmd(4, <<>>), TimeSleep(100), Call("WaitForNotBusy"),
       Cmd(0, <<>>), Dat(<<15>>),
       Cmd(97, <<>>), Dat(<<3>>), Dat(<<32>>), Dat(<<1>>), Dat(<<224>>),
       Call("Clear") >>

\* (mutant) Deep-Sleep without waiting for the Power-Off to finish
Sleep_noWait == << Cmd(2, <<>>), Cmd(7, <<165>>) >>

Sleep == << Cmd(2, <<>>), Call("WaitForNotBusy"), Cmd(7, <<165>>) >>

\* (mutant) Stop releases the channel without putting the panel to sleep
Stop_noSleep == << Gpio("SpiEnd"), Gpio("Close") >>

Stop == << Call("Sleep"), Gpio("SpiEnd"), Gpio("Close") >>

\* (mutant) the planes are sent in the wrong order
DisplayRefresh_redFirst ==
    << Cmd(16, <<>>), DatPlane("red"),
       Cmd(19, <<>>), DatPlane("bw"),
       Cmd(18, <<>>), TimeSleep(100), Call("WaitForNotBusy") >>

DisplayRefresh ==
    << Cmd(16, <<>>), DatPlane("bw"),
       Cmd(19, <<>>), DatPlane("red"),
       Cmd(18, <<>>), TimeSleep(100), Call("WaitForNotBusy") >>

\* paper.Set: the planes after Set(x, y, c)
paperSet(b, r, x, y, c) ==
    CASE c = colBlack -> <<clear(b, x, y), clear(r, x, y)>>
      [] c = colRed   -> <<set(b, x, y), set(r, x, y)>>
      [] OTHER        -> <<set(b, x, y), clear(r, x, y)>>

\* renderer.Render, as far as the panel is concerned: some pixels of dst are Set
RenderPixels == {<<0, 0>>, <<width - 1, height - 1>>}

RECURSIVE SetSeqs(_)
SetSeqs(n) ==
    IF n = 0 THEN {<<>>}
    ELSE {<<SetPixel(xy[1], xy[2], c)>> \o t :
              xy \in RenderPixels, c \in paperColor, t \in SetSeqs(n - 1)}

Render == UNION {SetSeqs(n) : n \in 1..MaxSets}

\* DisplayPartialRefresh once its arguments passed the alignment checks.
\* Go's integer division truncates towards zero, >> is an arithmetic shift
\* and byte() keeps the low eight bits.
partialWindow(x, y, w, h) ==
    LET hrst == x \div 8
        hred == IF x + w - 1 < 0 THEN 0 ELSE (x + w - 1) \div 8
        vrst == y
        vred == y + h - 1
    IN << (hrst \div 32) % 256, ((hrst % 32) * 8) % 256,
          (hred \div 32) % 256, ((hred % 32) * 8) % 256,
          (vrst \div 256) % 256, vrst % 256,
          (vred \div 256) % 256, vred % 256,
          1 >>

partialBody(x, y, w, h) ==
    << Cmd(145, <<>>), Cmd(144, <<>>) >>
    \o [i \in 1..9 |-> Dat(<<partialWindow(x, y, w, h)[i]>>)]
    \o << TimeSleep(2), Cmd(16, <<>>) >>
    \o [r \in 1..h |-> DatRow("bw", x, y + r - 1, w)]
    \o << Cmd(19, <<>>) >>
    \o [r \in 1..h |-> DatRow("red", x, y + r - 1, w)]
    \o << Cmd(18, <<>>), TimeSleep(100), Call("WaitForNotBusy"), Cmd(146, <<>>) >>

\* (mutant) the alignment of x and w is not checked
DisplayPartialRefresh_unchecked(x, y, w, h) == partialBody(x, y, w, h)

DisplayPartialRefresh(x, y, w, h) ==
    IF x % 8 # 0 \/ w % 8 # 0 THEN << Panic >> ELSE partialBody(x, y, w, h)

\* the statements a call executes (Render: one of them)
Bodies(f, n, bs) ==
    CASE f = "Reset"          -> {Reset}
      [] f = "Clear"          -> {Clear}
      [] f = "Command"        -> {Command(n, bs)}
      [] f = "Data"           -> {Data(bs)}
      [] f = "WaitForNotBusy" -> {WaitForNotBusy}
      [] f = "Init"           -> {paperInit}
      [] f = "Sleep"          -> {Sleep}
      [] f = "Stop"           -> {Stop}
      [] f = "DisplayRefresh" -> {DisplayRefresh}
      [] f = "DisplayPartialRefresh" -> {DisplayPartialRefresh(bs[1], bs[2], bs[3], bs[4])}
      [] f = "Render"         -> Render

PanelOps == {"Init", "DisplayRefresh", "Sleep", "Stop"}

\* --------------------------------------------------------- main.go: loop
\* (mutant) the frame is transmitted before it is rendered
loopCycle_renderLate == << Call("Init"), Call("DisplayRefresh"), Call("Render"), Call("Sleep") >>

\* (mutant) the panel is not re-initialised at the start of a cycle
loopCycle_noInit == << Call("Render"), Call("DisplayRefresh"), Call("Sleep") >>

\* the panel part of one iteration whose data differs
loopCycle == << Call("Init"), Call("Render"), Call("DisplayRefresh"), Call("Sleep") >>

\* (mutant) no two values are ever equal
Equal_never(d, o) == FALSE

\* displayData.Equal on the abstract data values
Equal(d, o) == d = o

DataValues == {1, 2}
zeroData == 0

alive == ~crashed /\ mainPc \notin {"Done", "Fatal"}

NoneDone == [f |-> "", g |-> "", n |-> 0, bs |-> <<>>, ev |-> <<>>]

TopF(g) == IF stack[g] = <<>> THEN "" ELSE Head(stack[g]).f


\* ------------------------------------------------------ bitmaps: reading
\* byte | j for a one-bit mask j
Or(byte, j) == IF Bit(byte, j) = 1 THEN byte ELSE byte + j

\* (mutant) get masks the byte with j
get_masked(bits, x, y) ==
    LET off == x + y * width
        i == off \div 8
        j == Pow2(7 - (off % 8))
    IN Bit(bits[i + 1], j) # 0

\* bitmap.get: b.bits[i]|byte(j) != 0
get(bits, x, y) ==
    LET off == x + y * width
        i == off \div 8
        j == Pow2(7 - (off % 8))
    IN Or(bits[i + 1], j) # 0

\* --------------------------------------------------------------- colours
\* A colour is the triple <<r, g, b>> that its RGBA method returns, each
\* component in 0..0xffff; every colour the program handles is opaque.
xffff == 65535

\* color.RGBA.RGBA of an opaque 8-bit colour: r |= r << 8
RGBA(c8) == [i \in 1..3 |-> c8[i] * 256 + c8[i]]

\* paperColor.RGBA, as the 8-bit color.RGBA it builds
paperColorRGBA(c) ==
    CASE c = colBlack -> <<0, 0, 0>>
      [] c = colRed   -> <<255, 0, 0>>
      [] OTHER        -> <<255, 255, 255>>

pickColor(c) ==
    IF c[1] = xffff /\ c[2] = xffff /\ c[3] = xffff THEN colWhite
    ELSE IF c[1] = 0 /\ c[2] = 0 /\ c[3] = 0 THEN colBlack
    ELSE IF c[1] = xffff /\ c[2] = 0 /\ c[3] = 0 THEN colRed
    ELSE colWhite

\* paper.ColorModel().Convert: color.Black, color.RGBA{R: 0xFF, A: 0xFF} or color.White
Convert(c) ==
    CASE pickColor(c) = colBlack -> <<0, 0, 0>>
      [] pickColor(c) = colRed   -> RGBA(<<255, 0, 0>>)
      [] OTHER                   -> <<xffff, xffff, xffff>>

\* paper.At on planes b and r
paperAt(b, r, x, y) ==
    IF get(r, x, y) THEN RGBA(paperColorRGBA(colRed))
    ELSE IF ~get(b, x, y) THEN RGBA(paperColorRGBA(colBlack))
    ELSE RGBA(paperColorRGBA(colWhite))

\* ------------------------------------------------------- rectangles, views
Rect(x0, y0, x1, y1) == [minX |-> x0, minY |-> y0, maxX |-> x1, maxY |-> y1]

\* image.Rectangle.Empty
Empty(r) == r.minX >= r.maxX \/ r.minY >= r.maxY

\* paper.Bounds
paperBounds == Rect(0, 0, width, height)

\* A draw.Image is the sequence of the views wrapped around the framebuffer,
\* outermost first; the empty sequence is the paper itself.
clippedImage(img, bounds) == <<[t |-> "clip", r |-> bounds]>> \o img

shiftedImage(img) == <<[t |-> "shift", r |-> Rect(0, 0, 0, 0)]>> \o img

RECURSIVE Bounds_notShifted(_)
\* (mutant) shiftedImage.Bounds reports the bounds of what it wraps
Bounds_notShifted(img) ==
    IF img = <<>> THEN paperBounds
    ELSE IF Head(img).t = "clip" THEN Head(img).r
    ELSE Bounds_notShifted(Tail(img))

RECURSIVE Bounds(_)
\* Bounds of paper, clippedImage and shiftedImage
Bounds(img) ==
    IF img = <<>> THEN paperBounds
    ELSE IF Head(img).t = "clip" THEN Head(img).r
    ELSE LET b == Bounds(Tail(img))
         IN Rect(0, 0, b.maxX - b.minX, b.maxY - b.minY)

RECURSIVE SetAt_unshifted(_, _, _)
\* (mutant) shiftedImage.Set passes its coordinates through
SetAt_unshifted(img, x, y) ==
    IF img = <<>> THEN <<x, y>>
    ELSE SetAt_unshifted(Tail(img), x, y)

RECURSIVE SetAt(_, _, _)
\* the framebuffer coordinate that img.Set(x, y, c) ends up writing
SetAt(img, x, y) ==
    IF img = <<>> THEN <<x, y>>
    ELSE IF Head(img).t = "clip" THEN SetAt(Tail(img), x, y)
    ELSE LET b == Bounds(Tail(img))
         IN SetAt(Tail(img), x + b.minX, y + b.minY)

\* ------------------------------------------------------------ colorError
\* int32(f) for a float f = n/d: truncation toward zero
TruncDiv(n, d) == IF n >= 0 THEN n \div d ELSE -((-n) \div d)

clipTo16(x) == IF x < -xffff THEN -xffff ELSE IF x > xffff THEN xffff ELSE x

\* (mutant) clipToU16 does not clamp
clipToU16_noClamp(x) == x

clipToU16(x) == IF x < 0 THEN 0 ELSE IF x > xffff THEN xffff ELSE x

\* colorError.Add
Add(ce, x) == [i \in 1..3 |-> clipTo16(ce[i] + x[i])]

\* colorError.Mul(n/16.0)
Mul(ce, n) == [i \in 1..3 |-> TruncDiv(n * ce[i], 16)]

\* colorError.Apply
Apply(ce, c) == [i \in 1..3 |-> clipToU16(c[i] + ce[i])]

\* colorSub(a, b): b - a
colorSub(a, b) == [i \in 1..3 |-> b[i] - a[i]]

\* ------------------------------------------------ values of unused state
NoApi == [script |-> "", x |-> 0, y |-> 0, w |-> 0, h |-> 0, c |-> <<0, 0, 0>>, plane |-> "", op |-> ""]

NoRet == [f |-> "", c |-> <<0, 0, 0>>, b |-> FALSE]

NoSrc == [w |-> 0, h |-> 0, c1 |-> <<0, 0, 0>>, c2 |-> <<0, 0, 0>>, oob |-> <<0, 0, 0>>]

NoPhoto == [sub |-> Rect(0, 0, 0, 0), pick |-> "", src |-> NoSrc]

NoPix == [x |-> 0, y |-> 0, srcX |-> 0, srcY |-> 0, srcCol |-> <<0, 0, 0>>,
          applied |-> <<0, 0, 0>>, dstCol |-> <<0, 0, 0>>, ce |-> <<0, 0, 0>>,
          at |-> <<0, 0>>, sum |-> <<0, 0, 0>>, adds |-> {}]

\* the client interface and the photo stage are not in use
ExtIdle ==
    /\ api = NoApi
    /\ ret = NoRet
    /\ photo = NoPhoto
    /\ photoPc = "Idle"
    /\ dst = <<>>
    /\ scale = [num |-> 0, den |-> 1]
    /\ carriedErrors = <<>>
    /\ col = 0 /\ row = 0
    /\ err = "none"
    /\ applog = <<>>
    /\ written = <<>>
    /\ pix = NoPix
    /\ planes0 = <<<<>>, <<>>>>

\* ------------------------------------------------ main.go: text, server
NoText == [pc |-> "Idle"]

EmptyBuf == [lines |-> <<>>, tail |-> 0]

NoWrite == [pc |-> "Idle"]

NoSel == [v |-> "", id |-> 0]

NoDir == [configured |-> FALSE, readable |-> TRUE, files |-> {}]

NoPick == [pc |-> "Idle"]

NoArr == [pc |-> "Idle"]

TextIdle == wt = NoText

WriteIdle == logBuf = EmptyBuf /\ wr = NoWrite

PickIdle ==
    /\ nextPhoto = NoSel /\ dir = NoDir /\ pk = NoPick
    /\ posts = <<>> /\ picks = <<>>

ArrIdle == arr = NoArr

\* none of the text placement, the log buffer, the photo picker and the
\* reorderer is in use
SvcIdle == TextIdle /\ WriteIdle /\ mu = "free" /\ PickIdle /\ ArrIdle

\* ------------------------------------------------ one step of panel code
Running(g) == alive /\ todo[g] # <<>>

\* a call is made: the callee's body replaces the call
DoCall(g) ==
    /\ Running(g)
    /\ Head(todo[g]).k \in {"call", "callp", "callr"}
    /\ LET h == Head(todo[g])
           plane == IF h.v = "bw" THEN bw ELSE red
           args == CASE h.k = "callp" -> plane
                     [] h.k = "callr" -> subrow(plane, h.bs[1], h.n, h.bs[2])
                     [] OTHER -> h.bs
           fresh == \A o \in Goroutines : stack[o] = <<>>
           log0 == IF fresh THEN <<>> ELSE log
       IN /\ \E body \in Bodies(h.s, h.n, args) :
                todo' = [todo EXCEPT ![g] = body \o <<Ret(h.s, h.n, args)>> \o Tail(@)]
          /\ stack' = [stack EXCEPT ![g] = <<[f |-> h.s, at |-> Len(log0)]>> \o @]
          /\ log' = log0
          /\ opsLog' = IF h.s \in PanelOps \cup {"Render"}
                       THEN Append(opsLog, [g |-> g, f |-> h.s, ph |-> "begin", from |-> lastOp])
                       ELSE opsLog
          /\ polls' = IF h.s = "WaitForNotBusy" THEN 0 ELSE polls
          /\ readv' = IF h.s = "WaitForNotBusy" THEN "none" ELSE readv
    /\ done' = NoneDone
    /\ UNCHANGED <<reset, dc, cs, bw, red, gpio, lastOp>>
    /\ UNCHANGED procVars
    /\ UNCHANGED extVars

\* panic(...): nothing in the program recovers, the process ends
DoPanic(g) ==
    /\ Running(g)
    /\ Head(todo[g]).k = "panic"
    /\ crashed' = TRUE
    /\ UNCHANGED panelVars
    /\ UNCHANGED <<usePaper, ctxDone, wg, mainPc, loopPc, httpPc, shutPc, sigPc,
                   httpShutdown, prev, data, loopErr>>
    /\ UNCHANGED extVars

\* a function returns
DoRet(g) ==
    /\ Running(g)
    /\ Head(todo[g]).k = "ret"
    /\ LET h == Head(todo[g])
           fr == Head(stack[g])
       IN /\ done' = [f |-> h.s, g |-> g, n |-> h.n, bs |-> h.bs,
                      ev |-> SubSeq(log, fr.at + 1, Len(log))]
          /\ opsLog' = IF h.s \in PanelOps \cup {"Render"}
                       THEN Append(opsLog, [g |-> g, f |-> h.s, ph |-> "end", from |-> lastOp])
                       ELSE opsLog
          /\ lastOp' = IF h.s \in PanelOps THEN h.s ELSE lastOp
    /\ todo' = [todo EXCEPT ![g] = Tail(@)]
    /\ stack' = [stack EXCEPT ![g] = Tail(@)]
    /\ UNCHANGED <<reset, dc, cs, bw, red, gpio, log, polls, readv>>
    /\ UNCHANGED procVars
    /\ UNCHANGED extVars

\* rpio.Pin.Write
DoPinWrite(g) ==
    /\ Running(g)
    /\ Head(todo[g]).k = "pin"
    /\ LET h == Head(todo[g])
       IN /\ reset' = IF h.s = "reset" THEN h.v ELSE reset
          /\ dc' = IF h.s = "dc" THEN h.v ELSE dc
          /\ cs' = IF h.s = "cs" THEN h.v ELSE cs
          /\ log' = IF h.s = "reset"
                    THEN Append(log, Ev("reset", TopF(g), h.v, "", 0, <<>>))
                    ELSE log
    /\ todo' = [todo EXCEPT ![g] = Tail(@)]
    /\ done' = NoneDone
    /\ UNCHANGED <<bw, red, gpio, stack, polls, readv, opsLog, lastOp>>
    /\ UNCHANGED procVars
    /\ UNCHANGED extVars

\* rpio.SpiTransmit: one burst, seen by the panel with the lines as they are
DoSpiTransmit(g) ==
    /\ Running(g)
    /\ Head(todo[g]).k = "tx"
    /\ log' = Append(log, Ev("tx", TopF(g), dc, cs, 0, Head(todo[g]).bs))
    /\ todo' = [todo EXCEPT ![g] = Tail(@)]
    /\ done' = NoneDone
    /\ UNCHANGED <<reset, dc, cs, bw, red, gpio, stack, polls, readv, opsLog, lastOp>>
    /\ UNCHANGED procVars
    /\ UNCHANGED extVars

\* time.Sleep
DoTimeSleep(g) ==
    /\ Running(g)
    /\ Head(todo[g]).k = "sleep"
    /\ log' = Append(log, Ev("sleep", TopF(g), "", "", Head(todo[g]).n, <<>>))
    /\ todo' = [todo EXCEPT ![g] = Tail(@)]
    /\ done' = NoneDone
    /\ UNCHANGED <<reset, dc, cs, bw, red, gpio, stack, polls, readv, opsLog, lastOp>>
    /\ UNCHANGED procVars
    /\ UNCHANGED extVars

\* p.busy.Read(): the panel decides what is read.  The log keeps the last
\* MaxPolls not-ready polls of a busy-wait: an older one (the Get-Status
\* burst, the read, the 1ms sleep) is dropped when a further one is recorded.
DoBusyRead(g) ==
    /\ Running(g)
    /\ Head(todo[g]).k = "busy"
    /\ \E v \in Level :
        /\ readv' = v
        /\ polls' = IF v = Low /\ polls < MaxPolls THEN polls + 1 ELSE polls
        /\ log' = LET kept == IF v = Low /\ polls = MaxPolls
                              THEN SubSeq(log, 1, Len(log) - 4) \o <<log[Len(log)]>>
                              ELSE log
                  IN Append(kept, Ev("busy", TopF(g), v, "", 0, <<>>))
        /\ todo' = [todo EXCEPT ![g] = afterBusyRead(v) \o Tail(@)]
    /\ done' = NoneDone
    /\ UNCHANGED <<reset, dc, cs, bw, red, gpio, stack, opsLog, lastOp>>
    /\ UNCHANGED procVars
    /\ UNCHANGED extVars

\* bitmap.setAll / bitmap.clearAll on one plane
DoBitmapOp(g) ==
    /\ Running(g)
    /\ Head(todo[g]).k = "bitmap"
    /\ LET h == Head(todo[g])
           f(bits) == IF h.v = "setAll" THEN setAll(bits) ELSE clearAll(bits)
       IN /\ bw' = IF h.s = "bw" THEN f(bw) ELSE bw
          /\ red' = IF h.s = "red" THEN f(red) ELSE red
    /\ todo' = [todo EXCEPT ![g] = Tail(@)]
    /\ done' = NoneDone
    /\ UNCHANGED <<reset, dc, cs, gpio, stack, log, polls, readv, opsLog, lastOp>>
    /\ UNCHANGED procVars
    /\ UNCHANGED extVars

\* paper.Set
DoSetPixel(g) ==
    /\ Running(g)
    /\ Head(todo[g]).k = "set"
    /\ LET h == Head(todo[g])
           after == paperSet(bw, red, h.bs[1], h.bs[2], h.v)
       IN /\ bw' = after[1]
          /\ red' = after[2]
    /\ todo' = [todo EXCEPT ![g] = Tail(@)]
    /\ done' = NoneDone
    /\ UNCHANGED <<reset, dc, cs, gpio, stack, log, polls, readv, opsLog, lastOp>>
    /\ UNCHANGED procVars
    /\ UNCHANGED extVars

\* rpio.SpiEnd / rpio.Close
DoGpio(g) ==
    /\ Running(g)
    /\ Head(todo[g]).k = "gpio"
    /\ gpio' = IF Head(todo[g]).s = "SpiEnd" THEN "open" ELSE "closed"
    /\ todo' = [todo EXCEPT ![g] = Tail(@)]
    /\ done' = NoneDone
    /\ UNCHANGED <<reset, dc, cs, bw, red, stack, log, polls, readv, opsLog, lastOp>>
    /\ UNCHANGED procVars
    /\ UNCHANGED extVars


\* ------------------------------------------------------- main.go: main
\* cancel()
cancel == ctxDone' = TRUE

\* (mutant) main does not wait for the goroutines
wgWait_noWait == TRUE

\* wg.Wait() returns
wgWait == wg = 0

\* main.go:195-199: p.Start() when -use_paper; a failure is fatal
MainStart ==
    /\ alive /\ mainPc = "Start"
    /\ \/ /\ usePaper
          /\ gpio' = "spi"
          /\ lastOp' = "Start"
          /\ mainPc' = "StartupSelect"
       \/ /\ usePaper
          /\ mainPc' = "Fatal"
          /\ UNCHANGED <<gpio, lastOp>>
       \/ /\ ~usePaper
          /\ mainPc' = "StartupSelect"
          /\ UNCHANGED <<gpio, lastOp>>
    /\ UNCHANGED <<reset, dc, cs, bw, red, todo, stack, log, polls, readv, done, opsLog>>
    /\ UNCHANGED <<usePaper, ctxDone, wg, loopPc, httpPc, shutPc, sigPc,
                   httpShutdown, crashed, prev, data, loopErr>>
    /\ UNCHANGED extVars

\* main.go:202-206: the startup select
MainStartupSelect ==
    /\ alive /\ mainPc = "StartupSelect"
    /\ \/ ctxDone /\ mainPc' = "Exit"
       \/ mainPc' = "Spawn"
    /\ UNCHANGED panelVars
    /\ UNCHANGED <<usePaper, ctxDone, wg, loopPc, httpPc, shutPc, sigPc,
                   httpShutdown, crashed, prev, data, loopErr>>
    /\ UNCHANGED extVars

\* main.go:211-218: wg.Add(1); go loop(...)
MainSpawn ==
    /\ alive /\ mainPc = "Spawn"
    /\ wg' = wg + 1
    /\ loopPc' = "Refresh"
    /\ mainPc' = "Exit"
    /\ UNCHANGED panelVars
    /\ UNCHANGED <<usePaper, ctxDone, httpPc, shutPc, sigPc,
                   httpShutdown, crashed, prev, data, loopErr>>
    /\ UNCHANGED extVars

\* main.go:222: <-ctx.Done()
MainCtxDone ==
    /\ alive /\ mainPc = "Exit"
    /\ ctxDone
    /\ mainPc' = "WgWait"
    /\ UNCHANGED panelVars
    /\ UNCHANGED <<usePaper, ctxDone, wg, loopPc, httpPc, shutPc, sigPc,
                   httpShutdown, crashed, prev, data, loopErr>>
    /\ UNCHANGED extVars

\* main.go:223-226: wg.Wait(), then p.Stop() when -use_paper
MainWgWait ==
    /\ alive /\ mainPc = "WgWait"
    /\ wgWait
    /\ IF usePaper
       THEN /\ todo' = [todo EXCEPT !["main"] = <<Call("Stop")>>]
            /\ mainPc' = "Stop"
       ELSE /\ mainPc' = "Done"
            /\ UNCHANGED todo
    /\ UNCHANGED <<reset, dc, cs, bw, red, gpio, stack, log, polls, readv, done, opsLog, lastOp>>
    /\ UNCHANGED <<usePaper, ctxDone, wg, loopPc, httpPc, shutPc, sigPc,
                   httpShutdown, crashed, prev, data, loopErr>>
    /\ UNCHANGED extVars

\* main.go:227-228: p.Stop() has returned; main returns
MainDone ==
    /\ alive /\ mainPc = "Stop"
    /\ todo["main"] = <<>>
    /\ mainPc' = "Done"
    /\ UNCHANGED panelVars
    /\ UNCHANGED <<usePaper, ctxDone, wg, loopPc, httpPc, shutPc, sigPc,
                   httpShutdown, crashed, prev, data, loopErr>>
    /\ UNCHANGED extVars

\* main.go:154-161: the signal goroutine
Signal ==
    /\ alive /\ sigPc = "Wait"
    /\ cancel
    /\ sigPc' = "Done"
    /\ UNCHANGED panelVars
    /\ UNCHANGED <<usePaper, wg, mainPc, loopPc, httpPc, shutPc,
                   httpShutdown, crashed, prev, data, loopErr>>
    /\ UNCHANGED extVars

\* main.go:169: net.Listen succeeds
HttpListen ==
    /\ alive /\ httpPc = "Listen"
    /\ httpPc' = "Serve"
    /\ UNCHANGED panelVars
    /\ UNCHANGED <<usePaper, ctxDone, wg, mainPc, loopPc, shutPc, sigPc,
                   httpShutdown, crashed, prev, data, loopErr>>
    /\ UNCHANGED extVars

\* main.go:170-173: net.Listen fails
HttpListenFail ==
    /\ alive /\ httpPc = "Listen"
    /\ cancel
    /\ httpPc' = "ListenFailed"
    /\ UNCHANGED panelVars
    /\ UNCHANGED <<usePaper, wg, mainPc, loopPc, shutPc, sigPc,
                   httpShutdown, crashed, prev, data, loopErr>>
    /\ UNCHANGED extVars

\* main.go:175: l is nil after a failed Listen; l.Addr() panics
HttpPanic ==
    /\ alive /\ httpPc = "ListenFailed"
    /\ crashed' = TRUE
    /\ UNCHANGED panelVars
    /\ UNCHANGED <<usePaper, ctxDone, wg, mainPc, loopPc, httpPc, shutPc, sigPc,
                   httpShutdown, prev, data, loopErr>>
    /\ UNCHANGED extVars

\* main.go:176-180: Serve returns; anything but ErrServerClosed cancels
HttpServeReturns ==
    /\ alive /\ httpPc = "Serve"
    /\ \/ httpShutdown /\ UNCHANGED ctxDone
       \/ ~httpShutdown /\ cancel
    /\ wg' = wg - 1
    /\ httpPc' = "Done"
    /\ UNCHANGED panelVars
    /\ UNCHANGED <<usePaper, mainPc, loopPc, shutPc, sigPc,
                   httpShutdown, crashed, prev, data, loopErr>>
    /\ UNCHANGED extVars

\* main.go:183-188: <-ctx.Done(); httpServer.Shutdown
HttpShutdown ==
    /\ alive /\ shutPc = "Wait"
    /\ ctxDone
    /\ httpShutdown' = TRUE
    /\ wg' = wg - 1
    /\ shutPc' = "Done"
    /\ UNCHANGED panelVars
    /\ UNCHANGED <<usePaper, ctxDone, mainPc, loopPc, httpPc, sigPc,
                   crashed, prev, data, loopErr>>
    /\ UNCHANGED extVars

\* ------------------------------------------------------- main.go: loop
\* (mutant) loop also gives up between the steps of a cycle
loopObservesCtx_midCycle == loopPc \in {"Select", "Cycle"}

\* where loop looks at ctx.Done()
loopObservesCtx == loopPc = "Select"

\* main.go:363: data := ref.Refresh(ctx)
LoopRefresh ==
    /\ alive /\ loopPc = "Refresh"
    /\ \E d \in DataValues : data' = d
    /\ loopPc' = "Equal"
    /\ UNCHANGED panelVars
    /\ UNCHANGED <<usePaper, ctxDone, wg, mainPc, httpPc, shutPc, sigPc,
                   httpShutdown, crashed, prev, loopErr>>
    /\ UNCHANGED extVars

\* main.go:365-381: if !data.Equal(prev) { ... }
LoopEqual ==
    /\ alive /\ loopPc = "Equal"
    /\ IF ~Equal(data, prev)
       THEN IF usePaper
            THEN /\ todo' = [todo EXCEPT !["loop"] = loopCycle]
                 /\ opsLog' = <<>>
                 /\ loopPc' = "Cycle"
                 /\ UNCHANGED prev
            ELSE /\ prev' = data
                 /\ loopPc' = "Select"
                 /\ UNCHANGED <<todo, opsLog>>
       ELSE /\ loopPc' = "Select"
            /\ UNCHANGED <<todo, opsLog, prev>>
    /\ UNCHANGED <<reset, dc, cs, bw, red, gpio, stack, log, polls, readv, done, lastOp>>
    /\ UNCHANGED <<usePaper, ctxDone, wg, mainPc, httpPc, shutPc, sigPc,
                   httpShutdown, crashed, data, loopErr>>
    /\ UNCHANGED extVars

\* main.go:380: prev = data, after p.Sleep() has returned
LoopCycleEnd ==
    /\ alive /\ loopPc = "Cycle"
    /\ todo["loop"] = <<>>
    /\ prev' = data
    /\ loopPc' = "Select"
    /\ UNCHANGED panelVars
    /\ UNCHANGED <<usePaper, ctxDone, wg, mainPc, httpPc, shutPc, sigPc,
                   httpShutdown, crashed, data, loopErr>>
    /\ UNCHANGED extVars

\* main.go:386: case <-time.After(cfg.RefreshPeriod)
LoopTimer ==
    /\ alive /\ loopPc = "Select"
    /\ loopPc' = "Refresh"
    /\ UNCHANGED panelVars
    /\ UNCHANGED <<usePaper, ctxDone, wg, mainPc, httpPc, shutPc, sigPc,
                   httpShutdown, crashed, prev, data, loopErr>>
    /\ UNCHANGED extVars

\* main.go:384-385: case <-ctx.Done(): return ctx.Err()
LoopReturn ==
    /\ alive /\ loopObservesCtx
    /\ loopPc \notin {"Idle", "Returned", "Exited"}
    /\ ctxDone
    /\ loopErr' = "context canceled"
    /\ loopPc' = "Returned"
    /\ UNCHANGED panelVars
    /\ UNCHANGED <<usePaper, ctxDone, wg, mainPc, httpPc, shutPc, sigPc,
                   httpShutdown, crashed, prev, data>>
    /\ UNCHANGED extVars

\* main.go:213-217: the goroutine that ran loop: cancel(), then wg.Done()
LoopExit ==
    /\ alive /\ loopPc = "Returned"
    /\ cancel
    /\ wg' = wg - 1
    /\ loopPc' = "Exited"
    /\ UNCHANGED panelVars
    /\ UNCHANGED <<usePaper, mainPc, httpPc, shutPc, sigPc,
                   httpShutdown, crashed, prev, data, loopErr>>
    /\ UNCHANGED extVars

\* ---------------------------------------------------------------- system
\* main.go:148-193: newPaper() has run, the signal and HTTP goroutines exist
Init ==
    /\ reset \in Level /\ dc \in Level /\ cs \in Level
    /\ bw = newBitmap /\ red = newBitmap
    /\ gpio = "closed"
    /\ todo = [g \in Goroutines |-> <<>>]
    /\ stack = [g \in Goroutines |-> <<>>]
    /\ log = <<>>
    /\ polls = 0
    /\ readv = "none"
    /\ done = NoneDone
    /\ opsLog = <<>>
    /\ lastOp = "none"
    /\ usePaper \in BOOLEAN
    /\ ctxDone = FALSE
    /\ wg = 2
    /\ mainPc = "Start" /\ loopPc = "Idle" /\ httpPc = "Listen"
    /\ shutPc = "Wait" /\ sigPc = "Wait"
    /\ httpShutdown = FALSE
    /\ crashed = FALSE
    /\ prev = zeroData /\ data = zeroData
    /\ loopErr = "none"
    /\ ExtIdle
    /\ SvcIdle

PanelStep(g) ==
    \/ DoCall(g) \/ DoRet(g) \/ DoPinWrite(g) \/ DoSpiTransmit(g) \/ DoTimeSleep(g)
    \/ DoBusyRead(g) \/ DoBitmapOp(g) \/ DoSetPixel(g) \/ DoGpio(g)

MainStep ==
    \/ MainStart \/ MainStartupSelect \/ MainSpawn \/ MainCtxDone \/ MainWgWait \/ MainDone

LoopStep ==
    \/ LoopRefresh \/ LoopEqual \/ LoopCycleEnd \/ LoopTimer \/ LoopReturn \/ LoopExit

HttpStep ==
    \/ HttpListen \/ HttpListenFail \/ HttpPanic \/ HttpServeReturns \/ HttpShutdown

Next ==
    \/ \E g \in Goroutines : PanelStep(g)
    \/ MainStep
    \/ LoopStep
    \/ HttpStep
    \/ Signal

Spec == Init /\ [][Next]_vars


\* The panel code on its own: the states in which a goroutine starts to use
\* the panel (loop at the start of its first refresh cycle, main.go:375; main
\* at p.Stop() after a cancelled startup, main.go:225), and from there only
\* the steps of the panel code, with the fairness the Go scheduler gives a
\* runnable goroutine.
LoopStartsCycle ==
    /\ todo = [g \in Goroutines |-> IF g = "loop" THEN loopCycle ELSE <<>>]
    /\ mainPc = "Exit" /\ loopPc = "Cycle"
    /\ httpPc = "Serve" /\ shutPc = "Wait" /\ sigPc = "Wait"
    /\ ctxDone = FALSE /\ httpShutdown = FALSE
    /\ wg = 3
    /\ data \in DataValues

MainStartsStop ==
    /\ todo = [g \in Goroutines |-> IF g = "main" THEN <<Call("Stop")>> ELSE <<>>]
    /\ mainPc = "Stop" /\ loopPc = "Idle"
    /\ httpPc = "Done" /\ shutPc = "Done" /\ sigPc = "Done"
    /\ ctxDone = TRUE /\ httpShutdown = TRUE
    /\ wg = 0
    /\ data = zeroData

PanelInit ==
    /\ reset \in Level /\ dc \in Level /\ cs \in Level
    /\ bw = newBitmap /\ red = newBitmap
    /\ gpio = "spi"
    /\ stack = [g \in Goroutines |-> <<>>]
    /\ log = <<>>
    /\ polls = 0
    /\ readv = "none"
    /\ done = NoneDone
    /\ opsLog = <<>>
    /\ lastOp = "Start"
    /\ usePaper = TRUE
    /\ crashed = FALSE
    /\ prev = zeroData
    /\ loopErr = "none"
    /\ LoopStartsCycle \/ MainStartsStop
    /\ ExtIdle
    /\ SvcIdle

PanelNext == \E g \in Goroutines : PanelStep(g)

PanelSpec ==
    /\ PanelInit
    /\ [][PanelNext]_vars
    /\ \A g \in Goroutines : WF_vars(PanelStep(g))

\* ================================================================ claims
\* what the panel sees: bursts, reset-line writes, busy reads, and the
\* sleeps of the reset pulse
Chan(ev) == SelectSeq(ev, LAMBDA e : e.k # "sleep" \/ e.by = "Reset")

IsCmd(e, x) == e.k = "tx" /\ e.v = Low /\ e.bs = <<x>>
IsData(e, bs) == e.k = "tx" /\ e.v = High /\ e.bs = bs
IsDataByte(e) == e.k = "tx" /\ e.v = High /\ Len(e.bs) = 1
IsReset(e, lvl) == e.k = "reset" /\ e.v = lvl
IsSleep(e, ms) == e.k = "sleep" /\ e.n = ms
IsBusy(e, lvl) == e.k = "busy" /\ e.v = lvl

\* c is one or more Get-Status polls, the last one and only the last one
\* reading the busy line as ready
IsPolls(c) ==
    /\ Len(c) >= 2
    /\ Len(c) % 2 = 0
    /\ \A i \in 1..Len(c) :
          IF i % 2 = 1 THEN IsCmd(c[i], 113)
          ELSE IsBusy(c[i], IF i = Len(c) THEN High ELSE Low)

AllWhite == (\A i \in DOMAIN bw : bw[i] = 255) /\ (\A i \in DOMAIN red : red[i] = 0)

InFrame(g, f) == \E i \in DOMAIN stack[g] : stack[g][i].f = f

AtBusyRead(g) == todo[g] # <<>> /\ Head(todo[g]).k = "busy"

\* C1: every run of paper.Init emits the reset pulse, 0x01 + 4 data bytes,
\* 0x04, Get-Status polls ending with the first ready read, 0x00 + 1 data
\* byte, 0x61 + 4 data bytes encoding 800 and 480 as two 10-bit big-endian
\* fields, and nothing else; when it returns both planes are all-White.
C1_InitSequence ==
    done.f = "Init" =>
        LET c == Chan(done.ev)
            n == Len(c)
        IN /\ n >= 20
           /\ IsReset(c[1], High) /\ IsSleep(c[2], 20)
           /\ IsReset(c[3], Low) /\ IsSleep(c[4], 2)
           /\ IsReset(c[5], High) /\ IsSleep(c[6], 20)
           /\ IsCmd(c[7], 1)
           /\ \A i \in 8..11 : IsDataByte(c[i])
           /\ IsCmd(c[12], 4)
           /\ IsPolls(SubSeq(c, 13, n - 7))
           /\ IsCmd(c[n - 6], 0)
           /\ IsDataByte(c[n - 5])
           /\ IsCmd(c[n - 4], 97)
           /\ \A i \in (n - 3)..n : IsDataByte(c[i])
           /\ (c[n - 3].bs[1] % 4) * 256 + c[n - 2].bs[1] = PanelWidth
           /\ (c[n - 1].bs[1] % 4) * 256 + c[n].bs[1] = PanelHeight
           /\ c[n - 3].bs[1] < 4 /\ c[n - 1].bs[1] < 4
           /\ AllWhite

\* Init has returned in a cycle after the first (the planes held a rendered
\* frame) and its busy-wait polled more than once
C1_Witness == done.f = "Init" /\ prev # zeroData /\ polls >= 1

\* C2: every run of DisplayRefresh sends 0x10 + the whole bw plane, 0x13 +
\* the whole red plane, 0x12, then polls until the busy line reads ready,
\* and nothing else.
C2_DisplayRefreshSequence ==
    done.f = "DisplayRefresh" =>
        LET c == Chan(done.ev)
            n == Len(c)
        IN /\ n >= 7
           /\ IsCmd(c[1], 16)
           /\ IsData(c[2], bw)
           /\ IsCmd(c[3], 19)
           /\ IsData(c[4], red)
           /\ IsCmd(c[5], 18)
           /\ IsPolls(SubSeq(c, 6, n))

C2_Witness == done.f = "DisplayRefresh" /\ ~AllWhite /\ polls >= 1

\* C3: WaitForNotBusy sends Get-Status (0x71) before every read of the busy
\* line, sends no other command, and returns only after a ready read.
C3_WaitForNotBusy ==
    /\ \A g \in Goroutines :
          AtBusyRead(g) => log # <<>> /\ IsCmd(log[Len(log)], 113)
    /\ done.f = "WaitForNotBusy" => IsPolls(Chan(done.ev)) /\ readv = High

C3_Witness == done.f = "WaitForNotBusy" /\ polls = MaxPolls


InWait(g) == InFrame(g, "WaitForNotBusy")

\* C4: WaitForNotBusy has no timeout.  While no poll has read ready the
\* goroutine stays inside WaitForNotBusy (so its callers Init,
\* DisplayRefresh, Sleep and Stop do not return) and keeps polling; once a
\* poll has read ready, WaitForNotBusy returns.
C4_NoTimeout ==
    /\ [][\A g \in Goroutines :
            (InWait(g) /\ readv # High) => (InWait(g)' /\ Len(stack'[g]) >= Len(stack[g]) - 1)]_vars
    /\ \A g \in Goroutines :
          (InWait(g) /\ readv # High) ~> (AtBusyRead(g) \/ ~alive)
    /\ \A g \in Goroutines :
          (InWait(g) /\ readv = High) ~> (~InWait(g) \/ ~alive)

\* a busy-wait that has polled not-ready MaxPolls times and is still polling
C4_Witness ==
    \E g \in Goroutines : InWait(g) /\ polls = MaxPolls /\ readv = Low /\ AtBusyRead(g)

\* the session states of the panel protocol, from the last operation that
\* completed
Sleeping == lastOp = "Sleep"

FromOpened(e) == e.from = "Start"
FromInitialized(e) == e.from \in {"Init", "DisplayRefresh"}
FromSleeping(e) == e.from = "Sleep"

Begins(f) == {i \in DOMAIN opsLog : opsLog[i].ph = "begin" /\ opsLog[i].f = f}

\* C5 (as claimed): Init only from Opened; 0x10/0x13/0x12 (DisplayRefresh)
\* only from Initialized; Power-Off / Deep-Sleep (Sleep) only from
\* Initialized.
C5_Original ==
    /\ \A i \in Begins("Init") : FromOpened(opsLog[i])
    /\ \A i \in Begins("DisplayRefresh") : FromInitialized(opsLog[i])
    /\ \A i \in Begins("Sleep") : FromInitialized(opsLog[i])

\* C5 (amended): DisplayRefresh only from Initialized; Init from Opened (the
\* first cycle) or Sleeping (every later cycle); loop issues Power-Off /
\* Deep-Sleep only from Initialized, Stop issues it from Opened or Sleeping.
C5_SessionStates ==
    /\ \A i \in Begins("Init") : FromOpened(opsLog[i]) \/ FromSleeping(opsLog[i])
    /\ \A i \in Begins("DisplayRefresh") : FromInitialized(opsLog[i])
    /\ \A i \in Begins("Sleep") :
          IF opsLog[i].g = "loop" THEN FromInitialized(opsLog[i])
          ELSE FromOpened(opsLog[i]) \/ FromSleeping(opsLog[i])

\* Stop is powering the panel down after a cycle left it in deep sleep
C5_Witness ==
    /\ InFrame("main", "Sleep") /\ Sleeping
    /\ \E i \in Begins("Init") : FromSleeping(opsLog[i])

CycleOrder ==
    << <<"Init", "begin">>, <<"Init", "end">>,
       <<"Render", "begin">>, <<"Render", "end">>,
       <<"DisplayRefresh", "begin">>, <<"DisplayRefresh", "end">>,
       <<"Sleep", "begin">>, <<"Sleep", "end">> >>

\* what loop has done to the panel in the cycle in progress (or the last one)
LoopOps ==
    LET l == SelectSeq(opsLog, LAMBDA e : e.g = "loop")
    IN [i \in DOMAIN l |-> <<l[i].f, l[i].ph>>]

IsPrefix(a, b) == Len(a) <= Len(b) /\ a = SubSeq(b, 1, Len(a))

\* C6: a refreshing cycle runs Init, Render, DisplayRefresh, Sleep in that
\* order, each returning before the next begins, and the planes do not
\* change between the start and the end of DisplayRefresh.
C6_CycleOrder ==
    /\ [](IsPrefix(LoopOps, CycleOrder))
    /\ [](loopPc = "Cycle" /\ todo["loop"] = <<>> => LoopOps = CycleOrder)
    /\ [][(\E g \in Goroutines : InFrame(g, "DisplayRefresh") \/ InFrame(g, "DisplayRefresh")')
            => (bw' = bw /\ red' = red)]_vars

\* a cycle has completed and the frame it transmitted was not blank
C6_Witness ==
    /\ loopPc = "Cycle" /\ todo["loop"] = <<>>
    /\ LoopOps = CycleOrder
    /\ ~AllWhite

\* C7: main and loop never use the panel at the same time: while main runs
\* Stop the loop goroutine has returned (or was never started).
C7_OneUser ==
    /\ ~(stack["main"] # <<>> /\ stack["loop"] # <<>>)
    /\ todo["main"] # <<>> => loopPc \in {"Idle", "Exited"} /\ todo["loop"] = <<>>

\* Stop is on the channel after loop ran a cycle and returned
C7_Witness == InFrame("main", "Stop") /\ loopPc = "Exited" /\ log # <<>> /\ Sleeping

\* C8: cancellation is observed only between cycles: a cycle that has begun
\* goes on to its end whether or not the context is cancelled, and loop
\* returns only from the wait between cycles, with the context's error.
C8_CancelBetweenCycles ==
    [][ /\ loopPc = "Cycle" => loopPc' = "Cycle" \/ (loopPc' = "Select" /\ LoopOps = CycleOrder)
        /\ (loopPc # "Returned" /\ loopPc' = "Returned")
              => (loopPc = "Select" /\ ctxDone /\ loopErr' = "context canceled")
      ]_vars

\* the context is cancelled and the cycle is nevertheless transmitting
C8_Witness == ctxDone /\ loopPc = "Cycle" /\ InFrame("loop", "DisplayRefresh") /\ log # <<>>

TxOf(ev) == SelectSeq(ev, LAMBDA e : e.k = "tx")

\* C9: a command byte goes out with data/command low, a data byte with it
\* high, chip-select low during every burst and high again when Command or
\* Data returns; Command's parameters follow the command burst, each as a
\* data burst of its own.
C9_Framing ==
    /\ \A i \in DOMAIN log :
          log[i].k = "tx" =>
             /\ log[i].cs = Low
             /\ log[i].by \in {"Command", "Data"}
             /\ log[i].by = "Command" => log[i].v = Low /\ Len(log[i].bs) = 1
             /\ log[i].by = "Data" => log[i].v = High
    /\ done.f \in {"Command", "Data"} => cs = High
    /\ done.f = "Command" =>
          LET t == TxOf(done.ev)
          IN /\ Len(t) = 1 + Len(done.bs)
             /\ IsCmd(t[1], done.n)
             /\ \A i \in 1..Len(done.bs) : IsData(t[i + 1], <<done.bs[i]>>)
    /\ done.f = "Data" =>
          LET t == TxOf(done.ev)
          IN Len(t) = 1 /\ IsData(t[1], done.bs)

\* a Command with a parameter has returned
C9_Witness == done.f = "Command" /\ done.bs # <<>>

\* C10: every run of Sleep sends Power-Off (0x02), polls until the busy line
\* reads ready, then sends Deep-Sleep (0x07) with parameter 0xA5, and nothing
\* else.
C10_SleepSequence ==
    done.f = "Sleep" =>
        LET c == Chan(done.ev)
            n == Len(c)
        IN /\ n >= 5
           /\ IsCmd(c[1], 2)
           /\ IsPolls(SubSeq(c, 2, n - 2))
           /\ IsCmd(c[n - 1], 7)
           /\ IsData(c[n], <<165>>)

C10_Witness == done.f = "Sleep" /\ polls >= 1

\* ============================================ the paper type on its own
\* A client of the paper type (waveshare.go:294-617) that has called Start
\* makes one of these call sequences on goroutine main:
\*   Stop, Stop;   Init, Stop;   Init, Sleep, Stop;
\*   Set(x, y, c), At(x, y);   setAll or clearAll, get(x, y)
\* from any content of the two planes.
At(x, y) == I("at", "", "", 0, <<x, y>>)
Get(plane, x, y) == I("get", plane, "", 0, <<x, y>>)

\* colours a client passes to Set
Palette == {<<xffff, xffff, xffff>>, <<0, 0, 0>>, <<xffff, 0, 0>>}

BytePatterns == {0, 255, 165, 90}
\* plane contents: every byte the same pattern, or every byte different
Planes == {[i \in DOMAIN newBitmap |-> b] : b \in BytePatterns}
          \cup {[i \in DOMAIN newBitmap |-> 16 * i + 1]}

InBounds == {<<x, y>> \in (0..(width - 1)) \X (0..(height - 1)) : TRUE}

\* windows of DisplayPartialRefresh: aligned ones inside the panel, and
\* ones whose x or w is not a multiple of 8
Windows ==
    {q \in {0, 3, 8} \X (0..(height - 1)) \X {0, 4, 8, 16} \X (0..height) :
        /\ q[2] + q[4] <= height
        /\ q[1] + q[3] <= width
        /\ (q[1] % 8 # 0 \/ q[3] % 8 # 0) => q[4] = 1}

ApiScripts ==
    {[NoApi EXCEPT !.script = k] : k \in {"StopStop", "InitStop", "SleepStop"}}
    \cup {[NoApi EXCEPT !.script = "SetAt", !.x = q[1], !.y = q[2], !.c = c] :
             q \in InBounds, c \in Palette}
    \cup {[NoApi EXCEPT !.script = "FillGet", !.x = q[1], !.y = q[2], !.plane = pl, !.op = op] :
             q \in InBounds, pl \in {"bw", "red"}, op \in {"setAll", "clearAll"}}
    \cup {[NoApi EXCEPT !.script = "Partial", !.x = q[1], !.y = q[2], !.w = q[3], !.h = q[4]] :
             q \in Windows}

ApiCalls(a) ==
    CASE a.script = "StopStop"  -> << Call("Stop"), Call("Stop") >>
      [] a.script = "InitStop"  -> << Call("Init"), Call("Stop") >>
      [] a.script = "SleepStop" -> << Call("Init"), Call("Sleep"), Call("Stop") >>
      [] a.script = "SetAt"     -> << SetPixel(a.x, a.y, pickColor(a.c)), At(a.x, a.y) >>
      [] a.script = "Partial"   -> << I("call", "DisplayPartialRefresh", "", 0, <<a.x, a.y, a.w, a.h>>) >>
      [] OTHER                  -> << BitmapOp(a.plane, a.op), Get(a.plane, a.x, a.y) >>

\* paper.At
DoAt(g) ==
    /\ Running(g)
    /\ Head(todo[g]).k = "at"
    /\ LET h == Head(todo[g])
       IN ret' = [f |-> "At", c |-> paperAt(bw, red, h.bs[1], h.bs[2]), b |-> FALSE]
    /\ todo' = [todo EXCEPT ![g] = Tail(@)]
    /\ done' = NoneDone
    /\ UNCHANGED <<reset, dc, cs, bw, red, gpio, stack, log, polls, readv, opsLog, lastOp>>
    /\ UNCHANGED procVars
    /\ UNCHANGED <<api>>
    /\ UNCHANGED photoVars
    /\ UNCHANGED svcVars

\* bitmap.get on one plane
DoGet(g) ==
    /\ Running(g)
    /\ Head(todo[g]).k = "get"
    /\ LET h == Head(todo[g])
           bits == IF h.s = "bw" THEN bw ELSE red
       IN ret' = [f |-> "get", c |-> <<0, 0, 0>>, b |-> get(bits, h.bs[1], h.bs[2])]
    /\ todo' = [todo EXCEPT ![g] = Tail(@)]
    /\ done' = NoneDone
    /\ UNCHANGED <<reset, dc, cs, bw, red, gpio, stack, log, polls, readv, opsLog, lastOp>>
    /\ UNCHANGED procVars
    /\ UNCHANGED <<api>>
    /\ UNCHANGED photoVars
    /\ UNCHANGED svcVars

\* A pin write, an SPI transmit or a pin read after rpio.Close has unmapped
\* the GPIO registers: the access either goes through (the actions above)
\* or faults, which ends the process.
DoClosedAccess(g) ==
    /\ Running(g)
    /\ gpio # "spi"
    /\ Head(todo[g]).k \in {"pin", "tx", "busy"}
    /\ crashed' = TRUE
    /\ UNCHANGED panelVars
    /\ UNCHANGED <<usePaper, ctxDone, wg, mainPc, loopPc, httpPc, shutPc, sigPc,
                   httpShutdown, prev, data, loopErr>>
    /\ UNCHANGED extVars

ApiInit ==
    /\ reset \in Level /\ dc \in Level /\ cs \in Level
    /\ bw \in Planes /\ red \in Planes
    /\ gpio = "spi"
    /\ api \in ApiScripts
    /\ todo = [g \in Goroutines |-> IF g = "main" THEN ApiCalls(api) ELSE <<>>]
    /\ stack = [g \in Goroutines |-> <<>>]
    /\ log = <<>>
    /\ polls = 0
    /\ readv = "none"
    /\ done = NoneDone
    /\ opsLog = <<>>
    /\ lastOp = "Start"
    /\ usePaper = TRUE
    /\ ctxDone = FALSE
    /\ wg = 0
    /\ mainPc = "Exit" /\ loopPc = "Idle" /\ httpPc = "Done"
    /\ shutPc = "Done" /\ sigPc = "Wait"
    /\ httpShutdown = FALSE
    /\ crashed = FALSE
    /\ prev = zeroData /\ data = zeroData
    /\ loopErr = "none"
    /\ ret = NoRet
    /\ photo = NoPhoto
    /\ photoPc = "Idle"
    /\ dst = <<>>
    /\ scale = [num |-> 0, den |-> 1]
    /\ carriedErrors = <<>>
    /\ col = 0 /\ row = 0
    /\ err = "none"
    /\ applog = <<>>
    /\ written = <<>>
    /\ pix = NoPix
    /\ planes0 = <<bw, red>>
    /\ SvcIdle

ApiStep(g) ==
    \/ DoCall(g) \/ DoRet(g) \/ DoPinWrite(g) \/ DoSpiTransmit(g) \/ DoTimeSleep(g)
    \/ DoBusyRead(g) \/ DoBitmapOp(g) \/ DoSetPixel(g) \/ DoGpio(g)
    \/ DoAt(g) \/ DoGet(g) \/ DoClosedAccess(g) \/ DoPanic(g)

ApiNext == ApiStep("main")

ApiSpec == ApiInit /\ [][ApiNext]_vars

\* ------------------------------------------------------ claims C11..C14
\* a Stop was invoked when the last panel operation completed was Stop,
\* that is on a session that is Closed
StopOnClosed == \E i \in Begins("Stop") : opsLog[i].from = "Stop"

C12_SetAtRoundTrip ==
    (api.script = "SetAt" /\ ret.f = "At") => ret.c = api.c

\* C13: after setAll() get(x, y) is true at every in-bounds coordinate, and
\* after clearAll() get(x, y) is false at every in-bounds coordinate.
C13_FillThenGet ==
    (api.script = "FillGet" /\ ret.f = "get") => (ret.b <=> api.op = "setAll")

\* C14: a step of Set(x, y, c) leaves bit 7-(x mod 8) of byte (x + y*W)/8 at
\* White = (bw 1, red 0), Black = (bw 0, red 0) or Red = (bw 1, red 1), and
\* changes no other bit of either plane.
C14_SetWritesOneBit ==
    [][ (/\ api.script = "SetAt"
         /\ todo["main"] # <<>>
         /\ Head(todo["main"]).k = "set"
         /\ todo'["main"] = Tail(todo["main"]))
        => LET byteIx == ((api.x + api.y * width) \div 8) + 1
               bitIx == 7 - (api.x % 8)
               wantBw == IF api.c = <<0, 0, 0>> THEN 0 ELSE 1
               wantRed == IF api.c = <<xffff, 0, 0>> THEN 1 ELSE 0
           IN /\ DOMAIN bw' = DOMAIN bw
              /\ DOMAIN red' = DOMAIN red
              /\ \A i \in DOMAIN bw : \A k \in 0..7 :
                    IF i = byteIx /\ k = bitIx
                    THEN /\ Bit(bw'[i], Pow2(k)) = wantBw
                         /\ Bit(red'[i], Pow2(k)) = wantRed
                    ELSE /\ Bit(bw'[i], Pow2(k)) = Bit(bw[i], Pow2(k))
                         /\ Bit(red'[i], Pow2(k)) = Bit(red[i], Pow2(k)) ]_vars

\* Set(width-1, height-1, Black) has acted on planes that held a mixed pattern
C14_Witness ==
    /\ api.script = "SetAt" /\ ret.f = "At"
    /\ api.x = width - 1 /\ api.y = height - 1 /\ api.c = <<0, 0, 0>>
    /\ bw[Len(bw)] = 164 /\ red[Len(red)] = 90

\* ==================================== the photo stage of Render, drawPhoto
\* renderer.Render has laid out the text (main.go:683-788); what remains is
\* the photo stage (main.go:790-806) and the drawPhoto it calls
\* (main.go:935-1008).  The sizes are small: for source sides up to 4 and
\* destination sides up to 17 the float64 expressions of drawPhoto equal
\* the exact ratios used here.
MaxSrc == 2            \* largest side of a decoded photo
MaxDst == 3            \* largest width of the region Render leaves for the photo

\* colours of a decoded photo: 8-bit channels, widened by RGBA()
SrcColours == {RGBA(<<255, 0, 0>>), RGBA(<<0, 0, 0>>), RGBA(<<128, 128, 128>>), RGBA(<<1, 1, 1>>)}

\* what src.At returns outside src.Bounds(): the zero color.Gray or the zero color.YCbCr
OutColours == {<<0, 0, 0>>, <<0, 34678, 0>>}

\* a decoded photo: w x h pixels from (0, 0), c1 where x+y is even and c2 elsewhere
Sources ==
    {[w |-> w, h |-> h, c1 |-> c1, c2 |-> c2, oob |-> o] :
        w \in 1..MaxSrc, h \in 1..MaxSrc, c1 \in SrcColours, c2 \in SrcColours, o \in OutColours}

\* src.At(x, y)
srcAt(src, x, y) ==
    IF x >= 0 /\ x < src.w /\ y >= 0 /\ y < src.h
    THEN (IF (x + y) % 2 = 0 THEN src.c1 ELSE src.c2)
    ELSE src.oob

\* sub.bounds of Render: rectangles inside the framebuffer, some of them
\* empty, and the whole framebuffer
SubRects ==
    {r \in [minX : 0..1, minY : 0..1, maxX : 0..width, maxY : 0..height] :
        /\ r.maxX >= r.minX /\ r.maxX <= r.minX + MaxDst
        /\ r.maxY >= r.minY}
    \cup {paperBounds}

\* r.photoPicker() and the os.Open / image.Decode of drawPhoto
Picks == {"pickErr", "none", "openErr", "decodeErr", "ok"}

PhotoInputs ==
    {[sub |-> r, pick |-> "ok", src |-> s] : r \in SubRects, s \in Sources}
    \cup {[sub |-> r, pick |-> k, src |-> NoSrc] : r \in SubRects, k \in Picks \ {"ok"}}

\* the framebuffer as the text layout leaves it: white, white with black
\* pixels, white with red pixels
TextPlanes ==
    {<<setAll(newBitmap), clearAll(newBitmap)>>,
     <<[i \in DOMAIN newBitmap |-> 165], clearAll(newBitmap)>>,
     <<setAll(newBitmap), [i \in DOMAIN newBitmap |-> 90]>>}

\* (mutant) a file that cannot be opened or decoded goes unnoticed
openAndDecode_unchecked(pick) == "nil"

\* main.go:936-944: os.Open and image.Decode; the error drawPhoto returns
openAndDecode(pick) ==
    CASE pick = "openErr"   -> "opening"
      [] pick = "decodeErr" -> "decoding image"
      [] OTHER              -> "nil"

\* (mutant) only the left edge is moved in
centred_leftOnly(img, src) ==
    LET b == Bounds(img)
        dstWidth == b.maxX - b.minX
        dstHeight == b.maxY - b.minY
    IN IF src.w * dstHeight >= src.h * dstWidth
       THEN img
       ELSE LET newWidth == (src.w * dstHeight) \div src.h
                offset == (dstWidth - newWidth) \div 2
            IN clippedImage(img, Rect(b.minX + offset, b.minY, b.maxX, b.maxY))

\* main.go:946-970: dst after the aspect-ratio branch.  scaleWidth is
\* src.w/dstWidth and scaleHeight is src.h/dstHeight; newWidth is
\* int(src.w / scaleHeight).
centred(img, src) ==
    LET b == Bounds(img)
        dstWidth == b.maxX - b.minX
        dstHeight == b.maxY - b.minY
    IN IF src.w * dstHeight >= src.h * dstWidth
       THEN img
       ELSE LET newWidth == (src.w * dstHeight) \div src.h
                offset == (dstWidth - newWidth) \div 2
            IN clippedImage(img, Rect(b.minX + offset, b.minY, b.maxX - offset, b.maxY))

\* main.go:952-961: scale, as a ratio
scaleOf(img, src) ==
    LET b == Bounds(img)
        dstWidth == b.maxX - b.minX
        dstHeight == b.maxY - b.minY
    IN IF src.w * dstHeight >= src.h * dstWidth
       THEN [num |-> src.w, den |-> dstWidth]
       ELSE [num |-> src.h, den |-> dstHeight]

\* carriedError(x, y): the index into carriedErrors (1-based here)
slot(x, y, maxX) == x + y * maxX + 1

\* (mutant) the below-left neighbour is not checked against the left edge
diffuse_noLeftGuard(errs, ce, x, y, maxX, maxY) ==
    LET e1 == IF x + 1 < maxX
              THEN [errs EXCEPT ![slot(x + 1, y, maxX)] = Add(@, Mul(ce, 7))] ELSE errs
        e2 == IF y + 1 < maxY
              THEN [e1 EXCEPT ![slot(x - 1, y + 1, maxX)] = Add(@, Mul(ce, 3))] ELSE e1
        e3 == IF y + 1 < maxY
              THEN [e2 EXCEPT ![slot(x, y + 1, maxX)] = Add(@, Mul(ce, 5))] ELSE e2
    IN IF x + 1 < maxX /\ y + 1 < maxY
       THEN [e3 EXCEPT ![slot(x + 1, y + 1, maxX)] = Add(@, Mul(ce, 1))] ELSE e3

\* main.go:992-1003: the error ce of pixel (x, y) is carried forward
diffuse(errs, ce, x, y, maxX, maxY) ==
    LET e1 == IF x + 1 < maxX
              THEN [errs EXCEPT ![slot(x + 1, y, maxX)] = Add(@, Mul(ce, 7))] ELSE errs
        e2 == IF x - 1 >= 0 /\ y + 1 < maxY
              THEN [e1 EXCEPT ![slot(x - 1, y + 1, maxX)] = Add(@, Mul(ce, 3))] ELSE e1
        e3 == IF y + 1 < maxY
              THEN [e2 EXCEPT ![slot(x, y + 1, maxX)] = Add(@, Mul(ce, 5))] ELSE e2
    IN IF x + 1 < maxX /\ y + 1 < maxY
       THEN [e3 EXCEPT ![slot(x + 1, y + 1, maxX)] = Add(@, Mul(ce, 1))] ELSE e3

\* main.go:790-804: sub, the Empty test, r.photoPicker()
RenderPhoto ==
    /\ photoPc = "Render"
    /\ IF Empty(photo.sub) \/ photo.pick = "none"
       THEN photoPc' = "Done" /\ UNCHANGED <<dst, applog>>
       ELSE IF photo.pick = "pickErr"
       THEN /\ applog' = Append(applog, "Picking random photo")
            /\ photoPc' = "Done"
            /\ UNCHANGED dst
       ELSE /\ dst' = clippedImage(<<>>, photo.sub)
            /\ photoPc' = "Open"
            /\ UNCHANGED applog
    /\ UNCHANGED <<photo, scale, carriedErrors, col, row, err, written, pix, planes0>>
    /\ UNCHANGED apiVars
    /\ UNCHANGED panelVars
    /\ UNCHANGED procVars
    /\ UNCHANGED svcVars

\* main.go:936-944
DrawPhotoOpen ==
    /\ photoPc = "Open"
    /\ IF openAndDecode(photo.pick) # "nil"
       THEN err' = openAndDecode(photo.pick) /\ photoPc' = "Returned"
       ELSE photoPc' = "Scale" /\ UNCHANGED err
    /\ UNCHANGED <<photo, dst, scale, carriedErrors, col, row, applog, written, pix, planes0>>
    /\ UNCHANGED apiVars
    /\ UNCHANGED panelVars
    /\ UNCHANGED procVars
    /\ UNCHANGED svcVars

\* main.go:946-976: scale, the centring clip, the shift, carriedErrors
DrawPhotoScale ==
    /\ photoPc = "Scale"
    /\ scale' = scaleOf(dst, photo.src)
    /\ dst' = shiftedImage(centred(dst, photo.src))
    /\ carriedErrors' = [i \in 1..(Bounds(dst').maxX * Bounds(dst').maxY) |-> <<0, 0, 0>>]
    /\ col' = 0 /\ row' = 0
    /\ photoPc' = "Loop"
    /\ UNCHANGED <<photo, err, applog, written, pix, planes0>>
    /\ UNCHANGED apiVars
    /\ UNCHANGED panelVars
    /\ UNCHANGED procVars
    /\ UNCHANGED svcVars

\* main.go:977-1005: one iteration of the inner loop
DrawPhotoPixel ==
    /\ photoPc = "Loop"
    /\ row < Bounds(dst).maxY /\ col < Bounds(dst).maxX
    /\ LET b == Bounds(dst)
           srcX == 0 + ((scale.num * col) \div scale.den)
           srcY == 0 + ((scale.num * row) \div scale.den)
           srcCol == srcAt(photo.src, srcX, srcY)
           carried == carriedErrors[slot(col, row, b.maxX)]
           applied == Apply(carried, srcCol)
           dstCol == Convert(applied)
           at == SetAt(dst, col, row)
           after == paperSet(bw, red, at[1], at[2], pickColor(dstCol))
           ce == colorSub(dstCol, applied)
           \* the sums ce[i]+x[i] that the calls of Add compute before clipping
           targets == {n \in {<<col + 1, row, 7>>, <<col - 1, row + 1, 3>>,
                              <<col, row + 1, 5>>, <<col + 1, row + 1, 1>>} :
                          n[1] >= 0 /\ n[1] < b.maxX /\ n[2] < b.maxY}
           adds == {carriedErrors[slot(n[1], n[2], b.maxX)][i] + Mul(ce, n[3])[i] :
                       n \in targets, i \in 1..3}
       IN /\ bw' = after[1]
          /\ red' = after[2]
          /\ carriedErrors' = diffuse(carriedErrors, ce, col, row, b.maxX, b.maxY)
          /\ written' = Append(written, at)
          /\ pix' = [x |-> col, y |-> row, srcX |-> srcX, srcY |-> srcY, srcCol |-> srcCol,
                     applied |-> applied, dstCol |-> dstCol, ce |-> ce, at |-> at,
                     sum |-> [i \in 1..3 |-> srcCol[i] + carried[i]], adds |-> adds]
          /\ IF col + 1 < b.maxX
             THEN col' = col + 1 /\ row' = row
             ELSE col' = 0 /\ row' = row + 1
    /\ UNCHANGED <<photo, photoPc, dst, scale, err, applog, planes0>>
    /\ UNCHANGED apiVars
    /\ UNCHANGED <<reset, dc, cs, gpio, todo, stack, log, polls, readv, done, opsLog, lastOp>>
    /\ UNCHANGED procVars
    /\ UNCHANGED svcVars

\* main.go:1007: both loops have ended; return nil
DrawPhotoReturn ==
    /\ photoPc = "Loop"
    /\ row >= Bounds(dst).maxY \/ Bounds(dst).maxX <= 0
    /\ err' = "nil"
    /\ photoPc' = "Returned"
    /\ UNCHANGED <<photo, dst, scale, carriedErrors, col, row, applog, written, pix, planes0>>
    /\ UNCHANGED apiVars
    /\ UNCHANGED panelVars
    /\ UNCHANGED procVars
    /\ UNCHANGED svcVars

\* main.go:802-807: drawPhoto has returned; its error is logged; Render returns
RenderReturn ==
    /\ photoPc = "Returned"
    /\ applog' = IF err # "nil" THEN Append(applog, "Drawing random photo") ELSE applog
    /\ photoPc' = "Done"
    /\ UNCHANGED <<photo, dst, scale, carriedErrors, col, row, err, written, pix, planes0>>
    /\ UNCHANGED apiVars
    /\ UNCHANGED panelVars
    /\ UNCHANGED procVars
    /\ UNCHANGED svcVars

PhotoInit ==
    /\ reset \in {High} /\ dc \in {High} /\ cs \in {High}
    /\ \E tp \in TextPlanes : bw = tp[1] /\ red = tp[2]
    /\ planes0 = <<bw, red>>
    /\ gpio = "spi"
    /\ todo = [g \in Goroutines |-> <<>>]
    /\ stack = [g \in Goroutines |-> <<>>]
    /\ log = <<>>
    /\ polls = 0
    /\ readv = "none"
    /\ done = NoneDone
    /\ opsLog = <<>>
    /\ lastOp = "Init"
    /\ usePaper = TRUE
    /\ ctxDone = FALSE
    /\ wg = 3
    /\ mainPc = "Exit" /\ loopPc = "Cycle" /\ httpPc = "Serve"
    /\ shutPc = "Wait" /\ sigPc = "Wait"
    /\ httpShutdown = FALSE
    /\ crashed = FALSE
    /\ prev = zeroData /\ data \in {1}
    /\ loopErr = "none"
    /\ api = NoApi
    /\ ret = NoRet
    /\ photo \in PhotoInputs
    /\ photoPc = "Render"
    /\ dst = <<>>
    /\ scale = [num |-> 0, den |-> 1]
    /\ carriedErrors = <<>>
    /\ col = 0 /\ row = 0
    /\ err = "none"
    /\ applog = <<>>
    /\ written = <<>>
    /\ pix = NoPix
    /\ SvcIdle

PhotoNext ==
    \/ RenderPhoto
    \/ DrawPhotoOpen
    \/ DrawPhotoScale
    \/ DrawPhotoPixel
    \/ DrawPhotoReturn
    \/ RenderReturn

PhotoSpec == PhotoInit /\ [][PhotoNext]_vars

\* ------------------------------------------------------ claims C15..C20
MaxInt32 == 2147483647

InInt32(v) == v >= -MaxInt32 - 1 /\ v <= MaxInt32

\* drawPhoto was called and has returned
DrawPhotoRan == photoPc \in {"Returned", "Done"} /\ err # "none"

\* C15: in drawPhoto every component of every carried-error slot is within
\* [-65535, 65535] after every Add, every error-corrected channel value is
\* within [0, 65535], and every int32 intermediate (the sum in Apply, the
\* difference in colorSub, the product in Mul, the sum in Add) fits 32 bits.
C15_ErrorRanges ==
    /\ \A k \in DOMAIN carriedErrors : \A i \in 1..3 :
          carriedErrors[k][i] >= -xffff /\ carriedErrors[k][i] <= xffff
    /\ \A i \in 1..3 :
          /\ pix.applied[i] >= 0 /\ pix.applied[i] <= xffff
          /\ InInt32(pix.sum[i])
          /\ InInt32(pix.ce[i])
          /\ \A n \in {7, 3, 5, 1} : InInt32(Mul(pix.ce, n)[i])
    /\ \A v \in pix.adds : InInt32(v)

\* a pixel of a photo has been handled whose corrected value had to be
\* clamped at 0, and a pixel of a photo that is (65535,0,0) everywhere
C15_Witness ==
    /\ photoPc = "Loop" /\ written # <<>>
    /\ \E i \in 1..3 : pix.sum[i] < 0 /\ pix.applied[i] = 0
    /\ \E k \in DOMAIN carriedErrors : carriedErrors[k][1] < 0

\* the pixels of rectangle r in row-major order
RowMajor(r) ==
    LET w == r.maxX - r.minX
        n == IF w <= 0 \/ r.maxY <= r.minY THEN 0 ELSE w * (r.maxY - r.minY)
    IN [k \in 1..n |-> <<r.minX + ((k - 1) % w), r.minY + ((k - 1) \div w)>>]

\* the encoding of pixel q in planes b and r: <<bw bit, red bit>>
Encoding(b, r, q) ==
    LET off == q[1] + q[2] * width
        j == Pow2(7 - (q[1] % 8))
    IN <<Bit(b[(off \div 8) + 1], j), Bit(r[(off \div 8) + 1], j)>>

IsColour(e) == e \in {<<1, 0>>, <<0, 0>>, <<1, 1>>}

PixelsOf(r) == {q \in InBounds : q[1] >= r.minX /\ q[1] < r.maxX /\ q[2] >= r.minY /\ q[2] < r.maxY}

\* the part of the region given to drawPhoto that the photo is drawn into
Drawn ==
    LET s == photo.sub
        dw == s.maxX - s.minX
        dh == s.maxY - s.minY
        off == (dw - ((photo.src.w * dh) \div photo.src.h)) \div 2
    IN IF photo.src.w * dh >= photo.src.h * dw
       THEN s
       ELSE Rect(s.minX + off, s.minY, s.maxX - off, s.maxY)

\* C16 (as claimed): a successful drawPhoto has written the pixels of the
\* region it was given, each once, in row-major order, and each of them is
\* White, Black or Red.
C16_Original ==
    (DrawPhotoRan /\ err = "nil") =>
        /\ written = RowMajor(photo.sub)
        /\ \A q \in PixelsOf(photo.sub) : IsColour(Encoding(bw, red, q))

\* C16 (amended): drawPhoto writes, each once and in row-major order, the
\* pixels of the region it draws into, which is the region it was given
\* when the source is proportionally at least as wide, and otherwise that
\* region with offset columns taken off each side; on return each of these
\* pixels is White, Black or Red and the rest of the framebuffer is as it was.
C16_VisitOrder ==
    (photo.pick = "ok" /\ photoPc \in {"Loop", "Returned", "Done"}) =>
        /\ IsPrefix(written, RowMajor(Drawn))
        /\ err = "nil" => written = RowMajor(Drawn)
        /\ \A k \in DOMAIN written : IsColour(Encoding(bw, red, written[k]))
        /\ \A q \in InBounds \ PixelsOf(Drawn) :
              Encoding(bw, red, q) = Encoding(planes0[1], planes0[2], q)

\* a drawPhoto that narrowed its region has returned, and the columns left
\* out still hold what the text layout put there
C16_Witness ==
    /\ DrawPhotoRan /\ err = "nil"
    /\ written # <<>>
    /\ Len(written) < Len(RowMajor(photo.sub))
    /\ planes0[1] # setAll(newBitmap)

\* the share of the residual that the neighbour at offset (dx, dy) gets, in sixteenths
Weight(dx, dy) ==
    CASE dx = 1 /\ dy = 0  -> 7
      [] dx = -1 /\ dy = 1 -> 3
      [] dx = 0 /\ dy = 1  -> 5
      [] dx = 1 /\ dy = 1  -> 1
      [] OTHER             -> 0

\* C17: the step that handles pixel (x, y) adds to the carried error of
\* every pixel of the drawn region the residual (corrected minus quantized
\* colour) times 7/16 if it is the right neighbour, 3/16 if below-left, 5/16
\* if below, 1/16 if below-right, and nothing otherwise; pixels outside have
\* no slot, and the slot of a pixel already visited does not change.
C17_Diffusion ==
    [][ (photoPc = "Loop" /\ written' # written) =>
        LET w == Bounds(dst).maxX
            h == Bounds(dst).maxY
            p == pix'
            residual == [i \in 1..3 |-> p.applied[i] - p.dstCol[i]]
        IN /\ p.x = col /\ p.y = row
           /\ Len(carriedErrors') = w * h
           /\ \A x \in 0..(w - 1) : \A y \in 0..(h - 1) : \A i \in 1..3 :
                 LET share == TruncDiv(Weight(x - p.x, y - p.y) * residual[i], 16)
                     old == carriedErrors[x + y * w + 1][i]
                     new == carriedErrors'[x + y * w + 1][i]
                 IN /\ new = clipTo16(old + share)
                    /\ (y < p.y \/ (y = p.y /\ x <= p.x)) => new = old ]_vars

\* a pixel with a non-zero residual and all four forward neighbours inside
\* has been handled, and so has a pixel on the left edge with a row below
C17_Witness ==
    /\ photoPc = "Loop"
    /\ Bounds(dst).maxX >= 3 /\ Bounds(dst).maxY >= 2
    /\ pix.x = 0 /\ pix.y = 0 /\ pix.ce[1] # 0
    /\ written # <<>>

\* C18: drawPhoto writes no framebuffer pixel outside the rectangle it was
\* given, whatever the source size, through the centring clip and the shift.
C18_WritesInside ==
    \A k \in DOMAIN written :
        /\ written[k][1] >= photo.sub.minX /\ written[k][1] < photo.sub.maxX
        /\ written[k][2] >= photo.sub.minY /\ written[k][2] < photo.sub.maxY

\* drawPhoto has drawn into a region that starts away from (0, 0), through
\* the centring clip
C18_Witness ==
    /\ DrawPhotoRan /\ written # <<>>
    /\ photo.sub.minX > 0 /\ photo.sub.minY > 0
    /\ Len(dst) = 3

SolidRed1x1 ==
    /\ photo.pick = "ok"
    /\ photo.src.w = 1 /\ photo.src.h = 1 /\ photo.src.c1 = <<xffff, 0, 0>>
    /\ photo.sub = paperBounds

PhotoUnreadable == photo.pick \in {"openErr", "decodeErr"}

\* C20: when the photo cannot be opened or decoded, drawPhoto returns an
\* error without reaching its drawing code or writing a pixel, and Render
\* logs that error once and returns with the framebuffer as the text
\* layout left it.
C20_UnreadablePhoto ==
    PhotoUnreadable =>
        /\ photoPc \in {"Render", "Open", "Returned", "Done"}
        /\ written = <<>>
        /\ <<bw, red>> = planes0
        /\ ~crashed
        /\ DrawPhotoRan => err \in {"opening", "decoding image"}
        /\ applog = IF photoPc = "Done" /\ ~Empty(photo.sub)
                    THEN <<"Drawing random photo">> ELSE <<>>

\* Render has returned after a photo that did not decode, over a text layout with black pixels
C20_Witness ==
    /\ photo.pick = "decodeErr" /\ photoPc = "Done"
    /\ err = "decoding image"
    /\ bw # setAll(newBitmap)

\* ================================================= views over the framebuffer
\* Clip and Shift views (main.go:1010-1039) are wrapped around the paper in
\* any order, then one pixel is written or read through the outermost view.
MaxViews == 4          \* views wrapped around the framebuffer

\* the panel and the process while only Render's own code is looked at: a
\* refresh cycle is under way, Init has returned and loop is in Render
InRender ==
    /\ reset = High /\ dc = High /\ cs = High
    /\ gpio = "spi"
    /\ todo = [g \in Goroutines |-> <<>>]
    /\ stack = [g \in Goroutines |-> <<>>]
    /\ log = <<>>
    /\ polls = 0
    /\ readv = "none"
    /\ done = NoneDone
    /\ opsLog = <<>>
    /\ lastOp = "Init"
    /\ usePaper = TRUE
    /\ ctxDone = FALSE
    /\ wg = 3
    /\ mainPc = "Exit" /\ loopPc = "Cycle" /\ httpPc = "Serve"
    /\ shutPc = "Wait" /\ sigPc = "Wait"
    /\ httpShutdown = FALSE
    /\ crashed = FALSE
    /\ prev = zeroData /\ data = 1
    /\ loopErr = "none"

\* the coordinate of the wrapped image that img.At(x, y) ends up reading
RECURSIVE AtAt(_, _, _)
AtAt(img, x, y) ==
    IF img = <<>> THEN <<x, y>>
    ELSE IF Head(img).t = "clip" THEN AtAt(Tail(img), x, y)
    ELSE LET b == Bounds(Tail(img))
         IN AtAt(Tail(img), x + b.minX, y + b.minY)

\* bounds a clippedImage over an image with bounds b is given here: b with
\* its left edge, its top edge, or all of left, top and right moved in by 1
ClipsOf(b) ==
    {r \in {Rect(b.minX + e[1], b.minY + e[2], b.maxX - e[3], b.maxY) :
                e \in {<<1, 0, 0>>, <<0, 1, 0>>, <<1, 1, 1>>}} :
        r.minX <= r.maxX /\ r.minY <= r.maxY}

LocalPixels(img) ==
    LET b == Bounds(img)
    IN {q \in (0..width) \X (0..height) :
           q[1] >= b.minX /\ q[1] < b.maxX /\ q[2] >= b.minY /\ q[2] < b.maxY}

\* clippedImage{img: dst, bounds: r}
ViewClip ==
    /\ photoPc = "Views"
    /\ Len(dst) < MaxViews
    /\ \E r \in ClipsOf(Bounds(dst)) : dst' = clippedImage(dst, r)
    /\ UNCHANGED <<photo, photoPc, scale, carriedErrors, col, row, err, applog, written, pix, planes0>>
    /\ UNCHANGED apiVars
    /\ UNCHANGED panelVars
    /\ UNCHANGED procVars
    /\ UNCHANGED svcVars

\* shiftedImage{dst}
ViewShift ==
    /\ photoPc = "Views"
    /\ Len(dst) < MaxViews
    /\ dst' = shiftedImage(dst)
    /\ UNCHANGED <<photo, photoPc, scale, carriedErrors, col, row, err, applog, written, pix, planes0>>
    /\ UNCHANGED apiVars
    /\ UNCHANGED panelVars
    /\ UNCHANGED procVars
    /\ UNCHANGED svcVars

\* dst.Set(x, y, color.Black) through the views
ViewSet ==
    /\ photoPc = "Views"
    /\ \E q \in LocalPixels(dst) :
          LET at == SetAt(dst, q[1], q[2])
              after == paperSet(bw, red, at[1], at[2], pickColor(<<0, 0, 0>>))
          IN /\ bw' = after[1]
             /\ red' = after[2]
             /\ written' = <<at>>
             /\ pix' = [NoPix EXCEPT !.x = q[1], !.y = q[2], !.at = at]
    /\ photoPc' = "Done"
    /\ UNCHANGED <<photo, dst, scale, carriedErrors, col, row, err, applog, planes0>>
    /\ UNCHANGED apiVars
    /\ UNCHANGED <<reset, dc, cs, gpio, todo, stack, log, polls, readv, done, opsLog, lastOp>>
    /\ UNCHANGED procVars
    /\ UNCHANGED svcVars

\* dst.At(x, y) through the views
ViewAt ==
    /\ photoPc = "Views"
    /\ \E q \in LocalPixels(dst) :
          LET at == AtAt(dst, q[1], q[2])
          IN /\ ret' = [f |-> "At", c |-> paperAt(bw, red, at[1], at[2]), b |-> FALSE]
             /\ pix' = [NoPix EXCEPT !.x = q[1], !.y = q[2], !.at = at]
    /\ photoPc' = "Done"
    /\ UNCHANGED <<photo, dst, scale, carriedErrors, col, row, err, applog, written, planes0>>
    /\ UNCHANGED api
    /\ UNCHANGED panelVars
    /\ UNCHANGED procVars
    /\ UNCHANGED svcVars

ViewInit ==
    /\ InRender
    /\ bw = [i \in DOMAIN newBitmap |-> 165] /\ red = clearAll(newBitmap)
    /\ planes0 = <<bw, red>>
    /\ api = NoApi
    /\ ret = NoRet
    /\ photo = NoPhoto
    /\ photoPc = "Views"
    /\ dst = <<>>
    /\ scale = [num |-> 0, den |-> 1]
    /\ carriedErrors = <<>>
    /\ col = 0 /\ row = 0
    /\ err = "none"
    /\ applog = <<>>
    /\ written = <<>>
    /\ pix = NoPix
    /\ SvcIdle

ViewNext == ViewClip \/ ViewShift \/ ViewSet \/ ViewAt

ViewSpec == ViewInit /\ [][ViewNext]_vars

\* ------------------------------------------------------------ claim C21
\* the views of img composed, innermost first, into one transform: the
\* offset from local to framebuffer coordinates, and the bounds
RECURSIVE Composed(_, _)
Composed(img, n) ==
    IF n = 0 THEN [dx |-> 0, dy |-> 0, b |-> paperBounds]
    ELSE LET t == Composed(img, n - 1)
             v == img[Len(img) - n + 1]
         IN IF v.t = "clip"
            THEN [dx |-> t.dx, dy |-> t.dy, b |-> v.r]
            ELSE [dx |-> t.dx + t.b.minX, dy |-> t.dy + t.b.minY,
                  b |-> Rect(0, 0, t.b.maxX - t.b.minX, t.b.maxY - t.b.minY)]

\* C21: whatever the nesting of Clip and Shift views, Bounds() of the chain
\* is the bounds of the composed transform (a Shift view reports (0,0)-(w,h)
\* of what it wraps, a Clip view its own rectangle), and a write or read at
\* local (x, y) reaches the framebuffer at (x, y) plus the composed offset,
\* which is the sum of the Min corners of what the Shift views wrap.
C21_ViewsCompose ==
    photoPc \in {"Views", "Done"} =>
        LET t == Composed(dst, Len(dst))
        IN /\ Bounds(dst) = t.b
           /\ (dst # <<>> /\ Head(dst).t = "shift") =>
                 /\ Bounds(dst).minX = 0 /\ Bounds(dst).minY = 0
                 /\ Bounds(dst).maxX = Bounds(Tail(dst)).maxX - Bounds(Tail(dst)).minX
                 /\ Bounds(dst).maxY = Bounds(Tail(dst)).maxY - Bounds(Tail(dst)).minY
           /\ (dst # <<>> /\ Head(dst).t = "clip") => Bounds(dst) = Head(dst).r
           /\ photoPc = "Done" =>
                 /\ pix.at = <<pix.x + t.dx, pix.y + t.dy>>
                 /\ written # <<>> =>
                       /\ written = <<pix.at>>
                       /\ Encoding(bw, red, pix.at) = <<0, 0>>
                       /\ \A q \in InBounds \ {pix.at} :
                             Encoding(bw, red, q) = Encoding(planes0[1], planes0[2], q)

\* a pixel has been written through Shift over Clip over Shift over Clip,
\* both clips with their corner away from the origin of what they wrap
C21_Witness ==
    /\ photoPc = "Done" /\ written # <<>>
    /\ Len(dst) = 4
    /\ dst[1].t = "shift" /\ dst[2].t = "clip" /\ dst[3].t = "shift" /\ dst[4].t = "clip"
    /\ dst[2].r.minX > 0 /\ dst[4].r.minX > 0 /\ dst[4].r.minY > 0
    /\ pix.at[1] = pix.x + 2


\* ------------------------------------------------ DisplayPartialRefresh
Misaligned == api.script = "Partial" /\ (api.x % 8 # 0 \/ api.w % 8 # 0)

\* C24: DisplayPartialRefresh with x or w not a multiple of 8 fails (it
\* never returns) with nothing sent on the channel and both planes as they
\* were.
C24_MisalignedFails ==
    Misaligned =>
        /\ log = <<>>
        /\ <<bw, red>> = planes0
        /\ done.f # "DisplayPartialRefresh"
        /\ (crashed \/ todo["main"] # <<>>)

\* the call was made with a misaligned window and has failed
C24_Witness == Misaligned /\ crashed /\ api.x = 3

\* the w/8 bytes of a plane that hold pixels x..x+w-1 of row r
RowBytes(plane, x, r, w) ==
    [k \in 1..(w \div 8) |-> plane[((x + 8 * (k - 1)) + r * width) \div 8 + 1]]

\* C25: an aligned DisplayPartialRefresh inside the panel sends 0x91, 0x90
\* and the nine window bytes, then 0x10 and the h rows of the bw plane, then
\* 0x13 and the h rows of the red plane, each row being the w/8 bytes that
\* hold its pixels x..x+w-1, rows in increasing order, then 0x12, the
\* busy-wait polls, and 0x92 last.
C25_PartialSequence ==
    done.f = "DisplayPartialRefresh" =>
        LET c == Chan(done.ev)
            n == Len(c)
            h == api.h
        IN /\ n >= 2 * h + 17
           /\ IsCmd(c[1], 145)
           /\ IsCmd(c[2], 144)
           /\ \A i \in 3..11 : IsDataByte(c[i])
           /\ IsCmd(c[12], 16)
           /\ \A i \in 1..h : IsData(c[12 + i], RowBytes(bw, api.x, api.y + i - 1, api.w))
           /\ IsCmd(c[13 + h], 19)
           /\ \A i \in 1..h : IsData(c[13 + h + i], RowBytes(red, api.x, api.y + i - 1, api.w))
           /\ IsCmd(c[14 + 2 * h], 18)
           /\ IsPolls(SubSeq(c, 15 + 2 * h, n - 1))
           /\ IsCmd(c[n], 146)

\* a window that starts past the first byte of its rows, two rows high, on
\* planes whose bytes all differ, has been sent after more than one poll
C25_Witness ==
    /\ done.f = "DisplayPartialRefresh"
    /\ api.x = 8 /\ api.w = 8 /\ api.h = 2
    /\ bw[1] # bw[2] /\ red[1] # red[2]
    /\ polls >= 1


\* ------------------------------------------------ loop: when it refreshes
\* the step of loop that compares the fetched data with the remembered data
LoopCompares == loopPc = "Equal" /\ loopPc' # "Equal"

\* C29 (as claimed): an iteration of loop runs a refresh cycle if and only
\* if the fetched data differs from the remembered data.
C29_Original ==
    [][LoopCompares => (loopPc' = "Cycle" <=> data # prev)]_vars

\* C29 (amended): an iteration runs a refresh cycle if and only if the panel
\* is in use and the fetched data differs from the remembered data; the
\* first fetch always differs; panel code of loop starts only in such an
\* iteration; the remembered data changes only to the fetched data and only
\* when that differed, and at the end of every iteration it is the fetched
\* data.
C29_RefreshIffChanged ==
    /\ [](loopPc = "Equal" /\ prev = zeroData => data # prev)
    /\ [](loopPc = "Select" => prev = data)
    /\ [][/\ LoopCompares => (loopPc' = "Cycle" <=> (usePaper /\ data # prev))
          /\ (todo["loop"] = <<>> /\ todo'["loop"] # <<>>) =>
                 (LoopCompares /\ data # prev /\ todo'["loop"] = loopCycle)
          /\ prev' # prev => (data # prev /\ prev' = data)]_vars

\* a later iteration of a loop that drives the panel has fetched data equal
\* to what the last refresh showed
C29_Witness ==
    /\ usePaper /\ loopPc = "Equal"
    /\ prev # zeroData /\ data = prev
    /\ lastOp = "Sleep"


\* ------------------------------------------------ drawPhoto: what it samples
\* C30: every destination pixel drawPhoto visits samples a source
\* coordinate inside the source image.
C30_SamplesInside ==
    pix # NoPix =>
        /\ 0 <= pix.srcX /\ pix.srcX < photo.src.w
        /\ 0 <= pix.srcY /\ pix.srcY < photo.src.h


\* ------------------------------------------------ main.go: writeText
\* fixed.I and fixed.Int26_6.Round: 26.6 fixed point, in 64ths of a pixel
fixedI(n) == n * 64

fixedRound(x) == (x + 32) \div 64

Anchors == {"topLeft", "topRight", "bottomLeft", "bottomRight"}

\* (mutant) the lower right corner is taken to be the size itself
lowerRight_size(size) == <<fixedI(size[1]), fixedI(size[2])>>

\* lowerRight := fixed.P(dstSize.X-1, dstSize.Y-1)
lowerRight(size) == <<fixedI(size[1] - 1), fixedI(size[2] - 1)>>

\* d.Dot from the origin: a negative component counts from the right/bottom
resolveOrigin(origin, size) ==
    << IF origin[1] >= 0 THEN fixedI(origin[1])
       ELSE lowerRight(size)[1] - fixedI(-origin[1]),
       IF origin[2] >= 0 THEN fixedI(origin[2])
       ELSE lowerRight(size)[2] - fixedI(-origin[2]) >>

\* the first switch on anchor: d.Dot moves to the start of the baseline
toBaseline(anchor, Dot, drawWidth, drawHeight) ==
    CASE anchor = "topLeft"     -> <<Dot[1], Dot[2] + drawHeight>>
      [] anchor = "topRight"    -> <<Dot[1] - drawWidth, Dot[2] + drawHeight>>
      [] anchor = "bottomLeft"  -> Dot
      [] anchor = "bottomRight" -> <<Dot[1] - drawWidth, Dot[2]>>

\* d.DrawString(text): the dot advances along the baseline by the advance
\* BoundString measured (the glyph pixels it writes are not modelled)
DrawString(Dot, advance) == <<Dot[1] + advance, Dot[2]>>

\* (mutant) the dot after drawing is returned as it is
toOpposite_asDrawn(anchor, Dot, drawWidth, drawHeight) == Dot

\* the second switch on anchor: d.Dot moves to the corner to return
toOpposite(anchor, Dot, drawWidth, drawHeight) ==
    CASE anchor = "topLeft"     -> Dot
      [] anchor = "topRight"    -> <<Dot[1] - drawWidth, Dot[2]>>
      [] anchor = "bottomLeft"  -> <<Dot[1], Dot[2] - drawHeight>>
      [] anchor = "bottomRight" -> <<Dot[1] - drawWidth, Dot[2] - drawHeight>>

\* what BoundString measures, in 64ths: the advance and the ascent
Advances == {fixedI(40), fixedI(40) + 32, fixedI(3) + 10}
Ascents == {fixedI(20), fixedI(7) + 40}

Origins == {-2, 0, 5, 30} \X {-2, 2, 25}

Sizes == {<<PanelWidth, PanelHeight>>, <<200, 100>>}

TextCall(n, origin, anchor, advance, ascent, size, first, from) ==
    [pc |-> "Call", n |-> n, origin |-> origin, anchor |-> anchor,
     advance |-> advance, ascent |-> ascent, size |-> size,
     Dot |-> <<0, 0>>, opposite |-> <<0, 0>>, first |-> first, from |-> from]

\* renderer.writeText
WriteText ==
    /\ wt.pc = "Call"
    /\ LET drawWidth == wt.advance
           drawHeight == wt.ascent
           start == toBaseline(wt.anchor, resolveOrigin(wt.origin, wt.size),
                               drawWidth, drawHeight)
           corner == toOpposite(wt.anchor, DrawString(start, wt.advance),
                                drawWidth, drawHeight)
       IN wt' = [wt EXCEPT !.pc = "Returned",
                           !.Dot = start,
                           !.opposite = <<fixedRound(corner[1]), fixedRound(corner[2])>>]
    /\ UNCHANGED <<logBuf, mu, wr, nextPhoto, dir, pk, posts, picks, arr>>
    /\ UNCHANGED panelVars
    /\ UNCHANGED procVars
    /\ UNCHANGED apiVars
    /\ UNCHANGED photoVars

\* Render places the next string, anchored bottomLeft, where the last one
\* ended: at the returned point, or at its X on the last baseline
ChainText ==
    /\ wt.pc = "Returned" /\ wt.n = 1
    /\ \E advance \in Advances, ascent \in Ascents,
          origin \in {wt.opposite, <<wt.opposite[1], wt.origin[2]>>} :
          wt' = TextCall(2, origin, "bottomLeft", advance, ascent, wt.size,
                         wt.anchor, wt.opposite)
    /\ UNCHANGED <<logBuf, mu, wr, nextPhoto, dir, pk, posts, picks, arr>>
    /\ UNCHANGED panelVars
    /\ UNCHANGED procVars
    /\ UNCHANGED apiVars
    /\ UNCHANGED photoVars

TextInit ==
    /\ InRender
    /\ bw = setAll(newBitmap) /\ red = clearAll(newBitmap)
    /\ ExtIdle
    /\ \E origin \in Origins, anchor \in Anchors, advance \in Advances,
          ascent \in Ascents, size \in Sizes :
          wt = TextCall(1, origin, anchor, advance, ascent, size, "", <<0, 0>>)
    /\ WriteIdle /\ mu = "free" /\ PickIdle /\ ArrIdle

TextNext == WriteText \/ ChainText

TextSpec == TextInit /\ [][TextNext]_vars

\* the call of the worked example: origin (-2, 2), topRight, 800x480, a
\* string 40 wide with ascent 20
IsExample ==
    /\ wt.pc = "Returned" /\ wt.n = 1
    /\ wt.origin = <<-2, 2>> /\ wt.anchor = "topRight"
    /\ wt.size = <<800, 480>>
    /\ wt.advance = fixedI(40) /\ wt.ascent = fixedI(20)

\* C22 (as claimed): the example's baseline point is (759, 22).
C22_Original == IsExample => wt.Dot = <<fixedI(759), fixedI(22)>>

\* C22 (amended): the example's baseline point is (800-1-2-40, 2+20), that
\* is (757, 22).
C22_ExampleBaseline == IsExample => wt.Dot = <<fixedI(757), fixedI(22)>>

C22_Witness == IsExample /\ wt.opposite = <<757, 22>>

\* the corner diagonally opposite the anchored one, to the nearest pixel
OppositeCorner ==
    LET o == resolveOrigin(wt.origin, wt.size)
        sx == IF wt.anchor \in {"topLeft", "bottomLeft"} THEN 1 ELSE -1
        sy == IF wt.anchor \in {"topLeft", "topRight"} THEN 1 ELSE -1
    IN <<fixedRound(o[1] + sx * wt.advance), fixedRound(o[2] + sy * wt.ascent)>>

\* the second string was placed at the point the first call returned
Stacked == wt.pc = "Returned" /\ wt.n = 2 /\ wt.origin = wt.from

\* C23 (as claimed): writeText returns the opposite corner, and a second
\* string anchored bottomLeft at the returned point starts its baseline
\* exactly there.
C23_Original ==
    /\ wt.pc = "Returned" => wt.opposite = OppositeCorner
    /\ Stacked => wt.Dot = <<fixedI(wt.from[1]), fixedI(wt.from[2])>>

\* C23 (amended): writeText returns the opposite corner, rounded to whole
\* pixels; a second string anchored bottomLeft at the returned point starts
\* its baseline exactly there when neither coordinate of that point is
\* negative, and at the same X whenever its X is not negative.
C23_OppositeCorner ==
    /\ wt.pc = "Returned" => wt.opposite = OppositeCorner
    /\ (Stacked /\ wt.from[1] >= 0 /\ wt.from[2] >= 0) =>
           wt.Dot = <<fixedI(wt.from[1]), fixedI(wt.from[2])>>
    /\ (wt.pc = "Returned" /\ wt.n = 2 /\ wt.from[1] >= 0) =>
           wt.Dot[1] = fixedI(wt.from[1])

\* a string anchored topRight returned a point inside the destination and
\* a second string was stacked at it
C23_Witness ==
    /\ Stacked /\ wt.first = "topRight"
    /\ wt.from[1] > 0 /\ wt.from[2] > 0
    /\ wt.advance # fixedI(40)


\* ------------------------------------------------ main.go: server.Write
\* A byte slice of log text is its lines and what follows the last newline:
\* lines[i] is the length of the i-th line, its newline included; tail is
\* the number of bytes after the last newline.
MaxLines == 3          \* lines in the log buffer before the call

max == 102400

RECURSIVE SumSeq(_)
SumSeq(q) == IF q = <<>> THEN 0 ELSE Head(q) + SumSeq(Tail(q))

\* len(b)
BufLen(b) == SumSeq(b.lines) + b.tail

\* bytes.Buffer.Write: p goes after what is there
BufWrite(b, p) ==
    IF p.lines = <<>>
    THEN [lines |-> b.lines, tail |-> b.tail + p.tail]
    ELSE [lines |-> b.lines \o <<b.tail + Head(p.lines)>> \o Tail(p.lines),
          tail |-> p.tail]

\* bytes.IndexByte(b, '\n')
IndexNewline(b) == IF b.lines = <<>> THEN -1 ELSE Head(b.lines) - 1

\* b[k:]
RECURSIVE SliceFrom(_, _)
SliceFrom(b, k) ==
    IF k = 0 THEN b
    ELSE IF b.lines = <<>> THEN [lines |-> <<>>, tail |-> b.tail - k]
    ELSE IF k >= Head(b.lines)
         THEN SliceFrom([lines |-> Tail(b.lines), tail |-> b.tail], k - Head(b.lines))
         ELSE [lines |-> <<Head(b.lines) - k>> \o Tail(b.lines), tail |-> b.tail]

\* (mutant) the slice restarts at the newline found
dropLine_keepNewline(b) ==
    LET i == IndexNewline(b)
    IN IF i < 0 THEN EmptyBuf ELSE SliceFrom(b, i)

\* one iteration of the shrinking loop: b = nil without a newline,
\* b = b[i+1:] otherwise
dropLine(b) ==
    LET i == IndexNewline(b)
    IN IF i < 0 THEN EmptyBuf ELSE SliceFrom(b, i + 1)

LineLens == {1, 1025, 51200, max}

TailLens == {0, 15, max + 1}

\* log text of at most n lines
Texts(n) ==
    {[lines |-> l, tail |-> t] :
        l \in UNION {[1..k -> LineLens] : k \in 0..n}, t \in TailLens}

WriteCall(p) == [pc |-> "Lock", p |-> p, b |-> EmptyBuf, n |-> 0, all |-> EmptyBuf]

\* s.mu.Lock()
WriteLock ==
    /\ wr.pc = "Lock" /\ mu = "free"
    /\ mu' = "Write"
    /\ wr' = [wr EXCEPT !.pc = "Append"]
    /\ UNCHANGED <<wt, logBuf, nextPhoto, dir, pk, posts, picks, arr>>
    /\ UNCHANGED panelVars
    /\ UNCHANGED procVars
    /\ UNCHANGED apiVars
    /\ UNCHANGED photoVars

\* n, err = s.logBuf.Write(p), and the test of the length against max
WriteAppend ==
    /\ wr.pc = "Append"
    /\ logBuf' = BufWrite(logBuf, wr.p)
    /\ wr' = [wr EXCEPT !.pc = IF BufLen(logBuf') > max THEN "Shrink" ELSE "Unlock",
                        !.n = BufLen(wr.p),
                        !.b = logBuf',
                        !.all = logBuf']
    /\ UNCHANGED <<wt, mu, nextPhoto, dir, pk, posts, picks, arr>>
    /\ UNCHANGED panelVars
    /\ UNCHANGED procVars
    /\ UNCHANGED apiVars
    /\ UNCHANGED photoVars

\* one iteration of: for len(b) > max { ... }
WriteShrink ==
    /\ wr.pc = "Shrink"
    /\ BufLen(wr.b) > max
    /\ wr' = [wr EXCEPT !.b = dropLine(wr.b)]
    /\ UNCHANGED <<wt, logBuf, mu, nextPhoto, dir, pk, posts, picks, arr>>
    /\ UNCHANGED panelVars
    /\ UNCHANGED procVars
    /\ UNCHANGED apiVars
    /\ UNCHANGED photoVars

\* the loop ends: copy(s.logBuf.Bytes(), b); s.logBuf.Truncate(len(b))
WriteCopy ==
    /\ wr.pc = "Shrink"
    /\ BufLen(wr.b) <= max
    /\ logBuf' = wr.b
    /\ wr' = [wr EXCEPT !.pc = "Unlock"]
    /\ UNCHANGED <<wt, mu, nextPhoto, dir, pk, posts, picks, arr>>
    /\ UNCHANGED panelVars
    /\ UNCHANGED procVars
    /\ UNCHANGED apiVars
    /\ UNCHANGED photoVars

\* return, and the deferred s.mu.Unlock()
WriteReturn ==
    /\ wr.pc = "Unlock"
    /\ mu' = "free"
    /\ wr' = [wr EXCEPT !.pc = "Returned"]
    /\ UNCHANGED <<wt, logBuf, nextPhoto, dir, pk, posts, picks, arr>>
    /\ UNCHANGED panelVars
    /\ UNCHANGED procVars
    /\ UNCHANGED apiVars
    /\ UNCHANGED photoVars

\* another holder of s.mu (serveFront, pickPhoto, serveSetNextPhoto) leaves
\* its critical section
OtherUnlock ==
    /\ mu = "other"
    /\ mu' = "free"
    /\ UNCHANGED <<wt, logBuf, wr, nextPhoto, dir, pk, posts, picks, arr>>
    /\ UNCHANGED panelVars
    /\ UNCHANGED procVars
    /\ UNCHANGED apiVars
    /\ UNCHANGED photoVars

WriteInit ==
    /\ InRender
    /\ bw = setAll(newBitmap) /\ red = clearAll(newBitmap)
    /\ ExtIdle
    /\ logBuf \in Texts(MaxLines)
    /\ mu \in {"free", "other"}
    /\ \E p \in Texts(1) : wr = WriteCall(p)
    /\ TextIdle /\ PickIdle /\ ArrIdle

WriteNext ==
    \/ WriteLock \/ WriteAppend \/ WriteShrink \/ WriteCopy \/ WriteReturn
    \/ OtherUnlock

\* the goroutine that called Write keeps running, and so does the holder of
\* the mutex
WriteSpec == WriteInit /\ [][WriteNext]_vars /\ WF_vars(WriteNext)

\* b is a with its first k lines dropped
DropsLines(a, b, k) ==
    /\ k \in 0..Len(a.lines)
    /\ b = [lines |-> SubSeq(a.lines, k + 1, Len(a.lines)), tail |-> a.tail]

\* C26: every call of server.Write returns; when it has returned the log
\* buffer holds at most 102400 bytes: the old content followed by the input,
\* less the fewest whole leading lines that bring it to that size, or
\* nothing at all when dropping every line does not.  Write reports the
\* length of the input.
C26_WriteShrinks ==
    /\ (wr.pc = "Lock") ~> (wr.pc = "Returned")
    /\ [](wr.pc = "Returned" =>
            /\ BufLen(logBuf) <= max
            /\ wr.n = BufLen(wr.p)
            /\ \/ \E k \in 0..Len(wr.all.lines) :
                     /\ DropsLines(wr.all, logBuf, k)
                     /\ \A j \in 0..(k - 1) :
                           \A c \in {[lines |-> SubSeq(wr.all.lines, j + 1, Len(wr.all.lines)),
                                      tail |-> wr.all.tail]} : BufLen(c) > max
               \/ /\ logBuf = EmptyBuf
                  /\ wr.all.tail > max)

\* Write has returned after shrinking a buffer that started with a newline,
\* dropping more than that first line and keeping something
C26_Witness ==
    /\ wr.pc = "Returned"
    /\ wr.all.lines # <<>> /\ Head(wr.all.lines) = 1
    /\ BufLen(wr.all) > max
    /\ logBuf # EmptyBuf
    /\ Len(logBuf.lines) + 2 <= Len(wr.all.lines)


\* ------------------------------------------------ reorder.go
MaxItems == 3          \* items handed to Arrange

\* Texts are sequences of letters.  A pattern is a literal with an optional
\* leading and an optional trailing ".*"; bad marks one regexp.Compile
\* rejects.
Pat(any0, lit, any1) == [any0 |-> any0, lit |-> lit, any1 |-> any1, bad |-> FALSE]

BadPat == [any0 |-> FALSE, lit |-> <<"(">>, any1 |-> FALSE, bad |-> TRUE]

\* case folding of a letter
foldLetter(c) == IF c = "A" THEN "a" ELSE IF c = "B" THEN "b" ELSE c

foldCase(s) == [i \in DOMAIN s |-> foldLetter(s[i])]

hasPrefix(l, s) == Len(l) <= Len(s) /\ SubSeq(s, 1, Len(l)) = l

hasSuffix(l, s) == Len(l) <= Len(s) /\ SubSeq(s, Len(s) - Len(l) + 1, Len(s)) = l

contains(l, s) == \E k \in 0..(Len(s) - Len(l)) : SubSeq(s, k + 1, k + Len(l)) = l

\* (mutant) the pattern is compiled as written
compile_asWritten(pat) == [pat |-> pat, fold |-> FALSE, anchored |-> FALSE]

\* regexp.Compile("(?i)^" + pat + "$")
compile(pat) == [pat |-> pat, fold |-> TRUE, anchored |-> TRUE]

\* regexp.Regexp.MatchString
MatchString(rx, s) ==
    LET t == IF rx.fold THEN foldCase(s) ELSE s
        l == IF rx.fold THEN foldCase(rx.pat.lit) ELSE rx.pat.lit
    IN IF ~rx.anchored THEN contains(l, t)
       ELSE CASE ~rx.pat.any0 /\ ~rx.pat.any1 -> t = l
              [] ~rx.pat.any0 /\ rx.pat.any1  -> hasPrefix(l, t)
              [] rx.pat.any0 /\ ~rx.pat.any1  -> hasSuffix(l, t)
              [] OTHER                        -> contains(l, t)

\* the patterns of all groups in order, each with its group's name
RECURSIVE flatten(_)
flatten(groups) ==
    IF groups = <<>> THEN <<>>
    ELSE [j \in DOMAIN Head(groups).Patterns |->
             [rx |-> compile(Head(groups).Patterns[j]), group |-> Head(groups).Name]]
         \o flatten(Tail(groups))

\* the first pattern that matches s (from 0), -1 when none does
RECURSIVE firstFrom(_, _, _)
firstFrom(patterns, s, j) ==
    IF j > Len(patterns) THEN -1
    ELSE IF MatchString(patterns[j].rx, s) THEN j - 1
    ELSE firstFrom(patterns, s, j + 1)

\* the less function Arrange sorts with
pairLess(p, q) ==
    IF p.pati >= 0 /\ q.pati >= 0 THEN p.pati < q.pati
    ELSE IF p.pati >= 0 /\ q.pati < 0 THEN TRUE
    ELSE IF p.pati < 0 /\ q.pati >= 0 THEN FALSE
    ELSE p.orig < q.orig

\* sort.SliceStable: an insertion sort for slices this short
RECURSIVE insertPair(_, _)
insertPair(s, x) ==
    IF s = <<>> THEN <<x>>
    ELSE IF pairLess(x, s[Len(s)])
         THEN Append(insertPair(SubSeq(s, 1, Len(s) - 1), x), s[Len(s)])
         ELSE Append(s, x)

RECURSIVE SliceStable(_)
SliceStable(s) ==
    IF s = <<>> THEN <<>>
    ELSE insertPair(SliceStable(SubSeq(s, 1, Len(s) - 1)), s[Len(s)])

\* the configurations of the reorderer
GroupSets ==
    { << [Name |-> "fresh", Patterns |-> <<Pat(FALSE, <<"a">>, TRUE), Pat(FALSE, <<"b">>, FALSE)>>],
         [Name |-> "cold", Patterns |-> <<Pat(TRUE, <<"a">>, FALSE)>>] >>,
      << [Name |-> "any", Patterns |-> <<Pat(TRUE, <<"b">>, TRUE)>>],
         [Name |-> "fresh", Patterns |-> <<Pat(FALSE, <<"a">>, FALSE), Pat(FALSE, <<"a", "b">>, FALSE)>>] >>,
      << [Name |-> "fresh", Patterns |-> <<Pat(FALSE, <<"a">>, TRUE), BadPat>>] >>,
      << >> }

ItemTexts == { <<"a">>, <<"A">>, <<"a", "b">>, <<"b">>, <<"c", "a">>, <<"c">> }

\* NewReorderer
NewReorderer ==
    /\ arr.pc = "New"
    /\ IF \E i \in DOMAIN arr.groups : \E j \in DOMAIN arr.groups[i].Patterns :
              arr.groups[i].Patterns[j].bad
       THEN arr' = [arr EXCEPT !.pc = "Error"]
       ELSE arr' = [arr EXCEPT !.pc = "Ready", !.patterns = flatten(arr.groups)]
    /\ UNCHANGED <<wt, logBuf, mu, wr, nextPhoto, dir, pk, posts, picks>>
    /\ UNCHANGED panelVars
    /\ UNCHANGED procVars
    /\ UNCHANGED apiVars
    /\ UNCHANGED photoVars

\* Reorderer.Arrange(n, text)
Arrange ==
    /\ arr.pc = "Ready"
    /\ LET n == Len(arr.text)
           pairs == [i \in 1..n |->
                        [orig |-> i - 1, pati |-> firstFrom(arr.patterns, arr.text[i], 1)]]
           sorted == SliceStable(pairs)
           matched == SelectSeq(sorted, LAMBDA p : p.pati >= 0)
       IN arr' = [arr EXCEPT !.pc = "Returned",
                             !.New = [i \in 1..n |-> sorted[i].orig],
                             !.Groups = [i \in DOMAIN matched |->
                                            arr.patterns[matched[i].pati + 1].group]]
    /\ UNCHANGED <<wt, logBuf, mu, wr, nextPhoto, dir, pk, posts, picks>>
    /\ UNCHANGED panelVars
    /\ UNCHANGED procVars
    /\ UNCHANGED apiVars
    /\ UNCHANGED photoVars

ArrangeInit ==
    /\ InRender
    /\ bw = setAll(newBitmap) /\ red = clearAll(newBitmap)
    /\ ExtIdle
    /\ \E groups \in GroupSets, text \in UNION {[1..k -> ItemTexts] : k \in 0..MaxItems} :
          arr = [pc |-> "New", groups |-> groups, patterns |-> <<>>, text |-> text,
                 New |-> <<>>, Groups |-> <<>>]
    /\ TextIdle /\ WriteIdle /\ mu = "free" /\ PickIdle

ArrangeNext == NewReorderer \/ Arrange

ArrangeSpec == ArrangeInit /\ [][ArrangeNext]_vars

\* the configured patterns in order, as <<pattern, group name>>
RECURSIVE Configured(_)
Configured(groups) ==
    IF groups = <<>> THEN <<>>
    ELSE [j \in DOMAIN Head(groups).Patterns |-> <<Head(groups).Patterns[j], Head(groups).Name>>]
         \o Configured(Tail(groups))

\* pattern p matches the whole of s, letter case ignored
WholeMatch(p, s) ==
    LET t == foldCase(s)
        l == foldCase(p.lit)
    IN \E a \in 0..Len(t) :
          /\ a + Len(l) <= Len(t)
          /\ SubSeq(t, a + 1, a + Len(l)) = l
          /\ (a > 0 => p.any0)
          /\ (a + Len(l) < Len(t) => p.any1)

\* the index (from 0) of the first configured pattern item i matches, -1
\* when it matches none
Rank(i) ==
    LET c == Configured(arr.groups)
        hits == {j \in DOMAIN c : WholeMatch(c[j][1], arr.text[i + 1])}
    IN IF hits = {} THEN -1 ELSE (CHOOSE j \in hits : \A k \in hits : j <= k) - 1

\* C27: New is a permutation of 0..n-1; matched items precede unmatched
\* ones; matched items are in the order of the first pattern they match,
\* original order within the same pattern; unmatched items keep their
\* original order; Groups holds the group names of the matched items in the
\* order of New, and nothing for the unmatched ones.
C27_Arrange ==
    arr.pc = "Returned" =>
        LET n == Len(arr.text)
            New == arr.New
            nm == Cardinality({i \in 0..(n - 1) : Rank(i) >= 0})
        IN /\ Len(New) = n
           /\ {New[i] : i \in 1..n} = 0..(n - 1)
           /\ \A i \in 1..n : \A j \in (i + 1)..n :
                 LET ri == Rank(New[i])
                     rj == Rank(New[j])
                 IN /\ rj >= 0 => ri >= 0
                    /\ (ri >= 0 /\ rj >= 0) => ri <= rj
                    /\ ri = rj => New[i] < New[j]
           /\ Len(arr.Groups) = nm
           /\ \A i \in 1..nm :
                 arr.Groups[i] = Configured(arr.groups)[Rank(New[i]) + 1][2]

\* three items: the first matches nothing, the other two match the same
\* pattern, one of them only when letter case is ignored
C27_Witness ==
    /\ arr.pc = "Returned"
    /\ arr.text = << <<"c">>, <<"A">>, <<"a", "b">> >>
    /\ arr.New = <<1, 2, 0>>
    /\ arr.Groups = <<"fresh", "fresh">>


\* ------------------------------------------------ main.go: pickPhoto
MaxPosts == 2          \* requests to /set-next-photo
MaxPicks == 2          \* calls of pickPhoto

\* what pickPhoto returned, and the request whose selection it used (0: none)
Picked(path, used) == [path |-> path, used |-> used]

\* the *.jpg paths the photos directory can hold
PhotoNames == {"p1.jpg", "p2.jpg"}

\* what a request can carry as its "photo" form value
PostValues == {"", "p1.jpg", "../x"}

Handlers == 1..MaxPosts

\* (mutant) Lock does not wait
canLock_always(m) == TRUE

\* sync.Mutex.Lock returns once nobody holds the mutex
canLock(m) == m = "free"

PickCallRec == [pc |-> "List", opts |-> {}, sel |-> NoSel, path |-> "", err |-> "none"]

\* loop's Render calls r.photoPicker()
PickCall ==
    /\ pk.pc \in {"Idle", "Returned"}
    /\ Len(picks) < MaxPicks
    /\ pk' = PickCallRec
    /\ UNCHANGED <<wt, logBuf, mu, wr, nextPhoto, dir, posts, picks, arr>>
    /\ UNCHANGED panelVars
    /\ UNCHANGED procVars
    /\ UNCHANGED apiVars
    /\ UNCHANGED photoVars

\* pickPhoto up to the mutex: PhotosDir, photoOptions, len(opts) == 0
PickList ==
    /\ pk.pc = "List"
    /\ IF ~dir.configured
       THEN /\ pk' = [pk EXCEPT !.pc = "Returned", !.err = "none"]
            /\ picks' = Append(picks, Picked("", 0))
       ELSE IF ~dir.readable
       THEN /\ pk' = [pk EXCEPT !.pc = "Returned", !.err = "glob"]
            /\ picks' = Append(picks, Picked("", 0))
       ELSE IF dir.files = {}
       THEN /\ pk' = [pk EXCEPT !.pc = "Returned", !.err = "no files"]
            /\ picks' = Append(picks, Picked("", 0))
       ELSE /\ pk' = [pk EXCEPT !.pc = "Lock", !.opts = dir.files]
            /\ UNCHANGED picks
    /\ UNCHANGED <<wt, logBuf, mu, wr, nextPhoto, dir, posts, arr>>
    /\ UNCHANGED panelVars
    /\ UNCHANGED procVars
    /\ UNCHANGED apiVars
    /\ UNCHANGED photoVars

\* s.mu.Lock()
PickLock ==
    /\ pk.pc = "Lock" /\ canLock(mu)
    /\ mu' = "pick"
    /\ pk' = [pk EXCEPT !.pc = "Read"]
    /\ UNCHANGED <<wt, logBuf, wr, nextPhoto, dir, posts, picks, arr>>
    /\ UNCHANGED panelVars
    /\ UNCHANGED procVars
    /\ UNCHANGED apiVars
    /\ UNCHANGED photoVars

\* sel := s.nextPhoto
PickRead ==
    /\ pk.pc = "Read"
    /\ pk' = [pk EXCEPT !.pc = "Clear", !.sel = nextPhoto]
    /\ UNCHANGED <<wt, logBuf, mu, wr, nextPhoto, dir, posts, picks, arr>>
    /\ UNCHANGED panelVars
    /\ UNCHANGED procVars
    /\ UNCHANGED apiVars
    /\ UNCHANGED photoVars

\* (mutant) the selection stays for the next call
cleared_kept(np) == np

\* s.nextPhoto = ""
cleared(np) == NoSel

PickClear ==
    /\ pk.pc = "Clear"
    /\ nextPhoto' = cleared(nextPhoto)
    /\ pk' = [pk EXCEPT !.pc = "Unlock"]
    /\ UNCHANGED <<wt, logBuf, mu, wr, dir, posts, picks, arr>>
    /\ UNCHANGED panelVars
    /\ UNCHANGED procVars
    /\ UNCHANGED apiVars
    /\ UNCHANGED photoVars

\* s.mu.Unlock()
PickUnlock ==
    /\ pk.pc = "Unlock"
    /\ mu' = "free"
    /\ pk' = [pk EXCEPT !.pc = "Choose"]
    /\ UNCHANGED <<wt, logBuf, wr, nextPhoto, dir, posts, picks, arr>>
    /\ UNCHANGED panelVars
    /\ UNCHANGED procVars
    /\ UNCHANGED apiVars
    /\ UNCHANGED photoVars

\* the selection if it is one of opts, opts[rand.Intn(len(opts))] otherwise
PickChoose ==
    /\ pk.pc = "Choose"
    /\ IF pk.sel.v # "" /\ \E opt \in pk.opts : pk.sel.v = opt
       THEN /\ pk' = [pk EXCEPT !.pc = "Returned", !.path = pk.sel.v]
            /\ picks' = Append(picks, Picked(pk.sel.v, pk.sel.id))
       ELSE \E opt \in pk.opts :
               /\ pk' = [pk EXCEPT !.pc = "Returned", !.path = opt]
               /\ picks' = Append(picks, Picked(opt, 0))
    /\ UNCHANGED <<wt, logBuf, mu, wr, nextPhoto, dir, posts, arr>>
    /\ UNCHANGED panelVars
    /\ UNCHANGED procVars
    /\ UNCHANGED apiVars
    /\ UNCHANGED photoVars

\* a request to /set-next-photo arrives: anything but a POST is refused
PostRequest(h) ==
    /\ posts[h].pc = "Idle"
    /\ \A g \in Handlers : g < h => posts[g].pc # "Idle"
    /\ \E method \in {"GET", "POST"}, v \in PostValues :
          /\ method = "GET" => v = ""
          /\ posts' = [posts EXCEPT ![h] = [pc |-> IF method = "POST" THEN "Lock" ELSE "Done",
                                            sel |-> v]]
    /\ UNCHANGED <<wt, logBuf, mu, wr, nextPhoto, dir, pk, picks, arr>>
    /\ UNCHANGED panelVars
    /\ UNCHANGED procVars
    /\ UNCHANGED apiVars
    /\ UNCHANGED photoVars

\* s.mu.Lock()
PostLock(h) ==
    /\ posts[h].pc = "Lock" /\ canLock(mu)
    /\ mu' = "post"
    /\ posts' = [posts EXCEPT ![h].pc = "Store"]
    /\ UNCHANGED <<wt, logBuf, wr, nextPhoto, dir, pk, picks, arr>>
    /\ UNCHANGED panelVars
    /\ UNCHANGED procVars
    /\ UNCHANGED apiVars
    /\ UNCHANGED photoVars

\* s.nextPhoto = sel
PostStore(h) ==
    /\ posts[h].pc = "Store"
    /\ nextPhoto' = [v |-> posts[h].sel, id |-> h]
    /\ posts' = [posts EXCEPT ![h].pc = "Unlock"]
    /\ UNCHANGED <<wt, logBuf, mu, wr, dir, pk, picks, arr>>
    /\ UNCHANGED panelVars
    /\ UNCHANGED procVars
    /\ UNCHANGED apiVars
    /\ UNCHANGED photoVars

\* s.mu.Unlock(), the log line and the redirect
PostUnlock(h) ==
    /\ posts[h].pc = "Unlock"
    /\ mu' = "free"
    /\ posts' = [posts EXCEPT ![h].pc = "Done"]
    /\ UNCHANGED <<wt, logBuf, wr, nextPhoto, dir, pk, picks, arr>>
    /\ UNCHANGED panelVars
    /\ UNCHANGED procVars
    /\ UNCHANGED apiVars
    /\ UNCHANGED photoVars

\* a photo is added to or removed from the directory
DirChange ==
    /\ dir.configured /\ dir.readable
    /\ \E f \in PhotoNames :
          dir' = [dir EXCEPT !.files = IF f \in @ THEN @ \ {f} ELSE @ \cup {f}]
    /\ UNCHANGED <<wt, logBuf, mu, wr, nextPhoto, pk, posts, picks, arr>>
    /\ UNCHANGED panelVars
    /\ UNCHANGED procVars
    /\ UNCHANGED apiVars
    /\ UNCHANGED photoVars

PickInit ==
    /\ InRender
    /\ bw = setAll(newBitmap) /\ red = clearAll(newBitmap)
    /\ ExtIdle
    /\ mu = "free"
    /\ nextPhoto = NoSel
    /\ dir \in [configured : BOOLEAN, readable : BOOLEAN, files : SUBSET PhotoNames]
    /\ ~dir.configured => (dir.readable /\ dir.files = {})
    /\ pk = NoPick
    /\ posts = [h \in Handlers |-> [pc |-> "Idle", sel |-> ""]]
    /\ picks = <<>>
    /\ TextIdle /\ WriteIdle /\ ArrIdle

PickNext ==
    \/ PickCall \/ PickList \/ PickLock \/ PickRead \/ PickClear \/ PickUnlock
    \/ PickChoose \/ DirChange
    \/ \E h \in Handlers : PostRequest(h) \/ PostLock(h) \/ PostStore(h) \/ PostUnlock(h)

PickSpec == PickInit /\ [][PickNext]_vars

\* C28: a path pickPhoto returns is one of the files its listing of the
\* photos directory found, whatever was posted; no posted selection is used
\* by two calls; and between pickPhoto's read of the selection and its
\* clearing nothing else writes it.
C28_PickedFromDir ==
    /\ []((pk.pc = "Returned" /\ pk.err = "none" /\ pk.path # "") =>
             (pk.path \in pk.opts /\ pk.path \in PhotoNames))
    /\ []((pk.pc = "Returned" /\ pk.err # "none") => pk.path = "")
    /\ [](\A i \in DOMAIN picks :
            picks[i].used # 0 =>
                   (posts[picks[i].used].sel = picks[i].path
                    /\ \A j \in DOMAIN picks : j # i => picks[j].used # picks[i].used))
    /\ [][pk.pc = "Clear" =>
            (nextPhoto' = nextPhoto \/ (pk'.pc = "Unlock" /\ nextPhoto' = NoSel))]_vars

\* two calls have returned: the first used the selection one request
\* posted, the second found a posted value that is no file of the
\* directory and picked a file of its own
C28_Witness ==
    /\ Len(picks) = 2 /\ pk.pc = "Returned"
    /\ picks[1].used # 0
    /\ pk.sel.v = "../x" /\ picks[2].used = 0
    /\ pk.path \in pk.opts

====
